---- MODULE Spec2Model ----
(***************************************************************************)
(* A model of the discrete canopy subsystem of Eradiate                    *)
(* (eradiate/scenes/biosphere/_discrete.py): the heap of canopies,         *)
(* instanced canopy elements and leaf clouds with the operations           *)
(* DiscreteCanopy.padded and LeafCloud.translated, the collision-avoidance *)
(* leaf placer, the parameter resolution objects and the leaf cloud        *)
(* generators.                                                             *)
(*                                                                         *)
(* In the heap, lengths are integers (a multiple of a fixed unit) and a    *)
(* point is a triple; objects live in heaps indexed by reference (1, 2,    *)
(* ...), and the attribute of an object that holds another object holds    *)
(* its reference. The placer, the parameter objects and the generators     *)
(* compute with exact fractions.                                           *)
(***************************************************************************)
EXTENDS Integers, Sequences, FiniteSets, Bags, TLC

VARIABLES
    \* --- the object heap (Spec) ---
    canopies,   \* DiscreteCanopy objects: [size, instanced_canopy_elements]
    elements,   \* InstancedCanopyElement objects: [canopy_element, instance_positions]
    clouds,     \* LeafCloud objects the caller holds: [id, leaf_positions, ...]
    last,       \* the last call made by the caller and what it returned
    returned,   \* the (receiver, padding, result) triples of the padded calls so far
    \* --- one call of the leaf placer (SpecPlace) ---
    pargs,      \* the arguments of the call
    pc,         \* where the call is: "idle", "placing", "returned", "raised"
    i_leaf,     \* i: the index of the leaf that is being placed (from 0)
    j_attempt,  \* j: the index of the attempt for leaf i (from 0)
    positions,  \* the rows of `positions` filled so far
    tree,       \* the boxes added to the AABB tree so far
    presult,    \* what the call returned: None, or the position array
    \* --- one construction of a parameter object (SpecParams) ---
    kwargs,     \* the keyword arguments of the construction
    obj,        \* self: the object under construction, a field is NoValue when None
    field,      \* the position of update() in the list of fields (from 1)
    ppc,        \* where the construction is: "idle", "update", "constructed", "raised"
    perr,       \* the exception raised by update(): [field, cause]
    params,     \* the object the construction returned
    \* --- one call of a leaf cloud generator (SpecGen) ---
    gcall,      \* the call: [shape, avoid_overlap, seed, n_attempts, closed]
    gpc,        \* where the call is: "idle", "params", "positions",
                \* "orientations", "returned", "raised"
    rng,        \* the number of values drawn from the generator so far
    gen_positions,      \* leaf_positions, once the position function returned
    gen_orientations,   \* the rows of `orientations` filled so far
    theta,      \* the value _inversebeta returned for the current row
    gresult,    \* the leaf cloud the call returned
    gerr,       \* the exception that ended the call
    \* --- a caller that makes generator calls one after the other (SpecGenCalls) ---
    history,    \* the calls that returned: [call, kwargs, result]
    ncalls,     \* the number of calls made so far
    \* --- one call of DiscreteCanopy.homogeneous (SpecHomogeneous) ---
    hcall,      \* the call: [id, kwargs, closed]
    hpc,        \* where the caller is: "idle", "direct" (in the call of
                \* LeafCloud.cuboid it makes first), then in homogeneous:
                \* "called", "params", "cuboid", "returned", "raised"
    hsize,      \* size, once it is computed
    herr,       \* the exception that ended homogeneous
    hresult,    \* the reference of the canopy homogeneous returned
    \* --- the reads of the fields of a parameter object (SpecReads) ---
    reads,      \* what the reads returned, in order: [field, val, exc]
    \* --- one call of DiscreteCanopy.leaf_cloud_from_files (SpecFromFiles) ---
    fcall,      \* the arguments: [id, size, leaf_cloud_dicts]
    fpc,        \* "idle", "called", "loop", "returned", "raised"
    i_dict,     \* the number of records the loop has handled
    instanced_canopy_elements,  \* the local list of the loop
    ferr,       \* the exception that ended the call
    fresult,    \* the reference of the canopy the call returned
    \* --- the kernel dictionaries of the canopy elements (SpecKernel) ---
    trees,      \* the heap of abstract trees (leaf_cloud is the leaf cloud,
                \* or NoValue for None)
    kcall,      \* the last call: [op, ctx], ctx = [ref, kernel_length]
    kresult,    \* the dictionary the last call returned
    kerr,       \* the exception that ended the last call
    \* --- the constructors that read a file or a dictionary ---
    disk,       \* the files, by name: the lines of each, a line being the
                \* sequence of its whitespace-separated tokens
    rcall,      \* the last constructor call: [op, ...], with its arguments
    rresult     \* its outcome: [exc, ...], with val the object returned

heapVars == <<canopies, elements, clouds, last, returned>>

placeVars == <<pargs, pc, i_leaf, j_attempt, positions, tree, presult>>

paramVars == <<kwargs, obj, field, ppc, perr, params>>

genVars == <<gcall, gpc, rng, gen_positions, gen_orientations, theta, gresult, gerr>>

callerVars == <<history, ncalls>>

homVars == <<hcall, hpc, hsize, herr, hresult>>

\* the variables of the callers of the generators
fromVars == <<fcall, fpc, i_dict, instanced_canopy_elements, ferr, fresult>>

\* the variables of the operations modelled after the reads
kernelVars == <<trees, kcall, kresult, kerr>>

\* the variables of the constructors that read a file or a dictionary
readVars == <<disk, rcall, rresult>>

laterVars == <<fromVars, kernelVars, readVars>>

moreVars == <<callerVars, homVars, reads, laterVars>>

vars == <<canopies, elements, clouds, last, returned,
          pargs, pc, i_leaf, j_attempt, positions, tree, presult,
          kwargs, obj, field, ppc, perr, params,
          gcall, gpc, rng, gen_positions, gen_orientations, theta, gresult, gerr,
          history, ncalls,
          hcall, hpc, hsize, herr, hresult, reads,
          fcall, fpc, i_dict, instanced_canopy_elements, ferr, fresult,
          trees, kcall, kresult, kerr,
          disk, rcall, rresult>>

-----------------------------------------------------------------------------
(* Bounds of the model.                                                    *)

\* padded is called with padding in -1 .. MaxPadding
MaxPadding == 1
\* a canopy is built with at most MaxInstances instance positions per element
MaxInstances == 2
\* the heap holds at most MaxCanopies canopies
MaxCanopies == 2
\* the heap holds at most MaxTranslated leaf clouds returned by translated
MaxTranslated == 1
\* the placer is called for at most MaxLeaves leaves
MaxLeaves == 2
\* the placer is called with n_attempts in 0 .. MaxAttempts
MaxAttempts == 2
\* a generator call draws at most MaxDraws values from its generator
MaxDraws == 16
\* a caller makes at most MaxCalls generator calls
MaxCalls == 3
MaxReads == 2
MaxRecords == 2

-----------------------------------------------------------------------------
(* Small helpers.                                                          *)

None == "None"

Add3(a, b) == <<a[1] + b[1], a[2] + b[2], a[3] + b[3]>>

-----------------------------------------------------------------------------
(* Exact arithmetic: a number is a fraction <<n, d>> in lowest terms, d > 0 *)
(* (a Python float or a pint quantity in the code, without the rounding).   *)

Abs(x) == IF x < 0 THEN -x ELSE x

RECURSIVE GCD(_, _)
GCD(a, b) == IF b = 0 THEN a ELSE GCD(b, a % b)

\* the fraction n / d in lowest terms, with a positive denominator
Reduced(n, d) ==
    LET g == GCD(Abs(n), Abs(d))
        sgn == IF d < 0 THEN -1 ELSE 1
    IN  <<sgn * (n \div g), sgn * (d \div g)>>

\* (the numerator and the denominator are evaluated once, then reduced)
Frac(n, d) == CHOOSE q \in {Reduced(p[1], p[2]) : p \in {<<n, d>>}} : TRUE

Whole(n) == <<n, 1>>
RAdd(a, b) == Frac(a[1] * b[2] + b[1] * a[2], a[2] * b[2])
RSub(a, b) == Frac(a[1] * b[2] - b[1] * a[2], a[2] * b[2])
RMul(a, b) == Frac(a[1] * b[1], a[2] * b[2])
RDiv(a, b) == Frac(a[1] * b[2], a[2] * b[1])
RLt(a, b) == a[1] * b[2] < b[1] * a[2]
RLe(a, b) == a[1] * b[2] <= b[1] * a[2]
RAbs(a) == <<Abs(a[1]), a[2]>>
RSq(a) == RMul(a, a)
\* int(): the integer part of a number that is not negative
Floor(a) == a[1] \div a[2]
\* np.sqrt of the square of a fraction
ISqrt(n) == CHOOSE k \in 0..n : k * k = n
RSqrt(a) == Frac(ISqrt(a[1]), ISqrt(a[2]))
Half == <<1, 2>>

\* The values the caller builds its first canopy from.
Sizes == {<<2, 3, 1>>}
ElementCounts == {1, 2}
\* the i-th instance position of the j-th element: pairwise distinct points
InstPoint(i, j) == <<i - 1, 2 - 2 * i, 3 * (j - 1)>>
\* The values the caller assigns directly to a field.
AssignedSizes == {<<7, 7, 7>>}
AssignedPositions == {<< <<9, 9, 9>> >>}
\* The arguments of translated: a 3-vector, a 1-D array that is no 3-vector,
\* and 2-D arrays of two rows of three and of two columns.
XyzInputs ==
    { [ndim |-> 1, data |-> <<1, 0, -1>>],
      [ndim |-> 1, data |-> <<1, 2>>],
      [ndim |-> 2, data |-> << <<1, 0, 0>>, <<0, 2, 0>> >>],
      [ndim |-> 2, data |-> << <<1, 0>>, <<0, 2>> >>] }

-----------------------------------------------------------------------------
(* DiscreteCanopy.padded                                                   *)

\* np.array(list(range(-padding, padding + 1)))
padding_factors(padding) == [i \in 1..(2 * padding + 1) |-> i - 1 - padding]

\* (mutant) the second factor as the slow index
product_swapped(fs) ==
    [k \in 1..(Len(fs) * Len(fs)) |->
        <<fs[((k - 1) % Len(fs)) + 1], fs[((k - 1) \div Len(fs)) + 1]>>]

\* itertools.product(fs, fs): the first factor is the slow index
product(fs) ==
    [k \in 1..(Len(fs) * Len(fs)) |->
        <<fs[((k - 1) \div Len(fs)) + 1], fs[((k - 1) % Len(fs)) + 1]>>]

\* the loop over the offsets: block k of the new array is the old array
\* translated by (x_size * x_offset_factor, y_size * y_offset_factor, 0)
new_instance_positions(old_instance_positions, x_size, y_size, padding) ==
    LET fs == padding_factors(padding)
        pairs == product(fs)
        n_instances_per_cell == Len(old_instance_positions)
    IN  [idx \in 1..(Len(fs) * Len(fs) * n_instances_per_cell) |->
            LET k == (idx - 1) \div n_instances_per_cell
                i == ((idx - 1) % n_instances_per_cell) + 1
                offset == <<x_size * pairs[k + 1][1], y_size * pairs[k + 1][2], 0>>
            IN  Add3(old_instance_positions[i], offset)]

\* (mutant) result.size *= len(padding_factors): the height is scaled too
padded_size_all(size, padding) ==
    <<size[1] * Len(padding_factors(padding)),
      size[2] * Len(padding_factors(padding)),
      size[3] * Len(padding_factors(padding))>>

\* (mutant) the size of the copy is left as it was
padded_size_kept(size, padding) == size

\* result.size[:2] *= len(padding_factors)
padded_size(size, padding) ==
    <<size[1] * Len(padding_factors(padding)),
      size[2] * Len(padding_factors(padding)),
      size[3]>>

\* (mutant) copy(self): the copy shares the elements of the receiver
copy_elements(c) == canopies[c].instanced_canopy_elements

\* deepcopy(self): the references of the copies of the elements of canopy c,
\* allocated at the end of the heap (the elements of a canopy are distinct
\* objects; the canopy element of each is copied with it)
deepcopy_elements(c) ==
    [j \in 1..Len(canopies[c].instanced_canopy_elements) |-> Len(elements) + j]

\* (mutant) the check lets the padding -1 through
invalid_padding_off_by_one(padding) == padding < -1

\* if padding < 0
invalid_padding(padding) == padding < 0

\* padded on canopy c of a heap that holds at most max_canopies canopies
padded_in(c, padding, max_canopies) ==
    /\ c \in 1..Len(canopies)
    /\ IF invalid_padding(padding)
       THEN \* raise ValueError("padding must be >= 0")
            /\ last' = [op |-> "padded", recv |-> c, arg |-> padding, ret |-> 0,
                        raised |-> "ValueError"]
            /\ UNCHANGED <<canopies, elements, clouds>>
       ELSE IF padding = 0
       THEN \* return self
            /\ last' = [op |-> "padded", recv |-> c, arg |-> padding, ret |-> c,
                        raised |-> None]
            /\ UNCHANGED <<canopies, elements, clouds>>
       ELSE LET self == canopies[c]
                olds == self.instanced_canopy_elements
                es == deepcopy_elements(c)
                result == Len(canopies) + 1
                x_size == self.size[1]
                y_size == self.size[2]
            IN  /\ Len(canopies) < max_canopies
                /\ UNCHANGED clouds
                \* each element of the copy gets its new instance positions
                /\ elements' =
                     [e \in 1..(Len(elements) + Cardinality({j \in 1..Len(es) : es[j] > Len(elements)})) |->
                        IF \E j \in 1..Len(es) : es[j] = e
                        THEN LET j == CHOOSE j \in 1..Len(es) : es[j] = e
                             IN  [canopy_element |-> elements[olds[j]].canopy_element,
                                  instance_positions |->
                                     new_instance_positions(
                                         elements[olds[j]].instance_positions,
                                         x_size, y_size, padding)]
                        ELSE elements[e]]
                /\ canopies' = Append(canopies,
                        [size |-> padded_size(self.size, padding),
                         instanced_canopy_elements |-> es])
                /\ last' = [op |-> "padded", recv |-> c, arg |-> padding, ret |-> result,
                            raised |-> None]

padded(c, padding) == padded_in(c, padding, MaxCanopies)

-----------------------------------------------------------------------------
(* LeafCloud.translated                                                    *)

\* xyz.shape of a 2-D array given by its rows
shape(data) == <<Len(data), IF Len(data) = 0 THEN 0 ELSE Len(data[1])>>

\* the outcome of translated: the new leaf positions, or the error raised
translated_positions(leaf_positions, xyz) ==
    IF xyz.ndim <= 1
    THEN \* xyz.reshape((1, 3)), then broadcast over the leaves
         IF Len(xyz.data) # 3
         THEN [raised |-> "ValueError", value |-> <<>>]
         ELSE [raised |-> None,
               value |-> [i \in 1..Len(leaf_positions) |->
                            Add3(leaf_positions[i], xyz.data)]]
    ELSE IF shape(xyz.data) # <<Len(leaf_positions), 3>>
         THEN [raised |-> "ValueError", value |-> <<>>]
         ELSE [raised |-> None,
               value |-> [i \in 1..Len(leaf_positions) |->
                            Add3(leaf_positions[i], xyz.data[i])]]

\* self.leaf_positions.shape: (N, 3) for an array of rows, (0,) for the
\* array of the empty list the field holds by default
positions_shape(self) ==
    IF self.positions_ndim = 1 THEN <<Len(self.leaf_positions)>>
    ELSE <<Len(self.leaf_positions), 3>>

\* translated on a leaf cloud: on the default array of shape (0,) the shape
\* test fails for every 2-D xyz and the sum with a (1, 3) array cannot be
\* broadcast, which numpy reports with ValueError
translated_outcome(self, xyz) ==
    IF positions_shape(self) = <<0>>
    THEN [raised |-> "ValueError", value |-> <<>>]
    ELSE translated_positions(self.leaf_positions, xyz)

translated(l, xyz) ==
    /\ l \in 1..Len(clouds)
    /\ LET new == translated_outcome(clouds[l], xyz)
       IN  IF new.raised # None
           THEN /\ last' = [op |-> "translated", recv |-> l, arg |-> xyz,
                            ret |-> 0, raised |-> new.raised]
                /\ UNCHANGED <<canopies, elements, clouds, returned>>
           ELSE \* attr.evolve(self, leaf_positions=...): a new leaf cloud
                /\ Len(clouds) <= MaxTranslated
                /\ clouds' = Append(clouds, [clouds[l] EXCEPT !.leaf_positions = new.value])
                /\ last' = [op |-> "translated", recv |-> l, arg |-> xyz,
                            ret |-> Len(clouds) + 1, raised |-> None]
                /\ UNCHANGED <<canopies, elements, returned>>

-----------------------------------------------------------------------------
(* Direct field assignment by the caller.                                  *)

\* canopy.size = v
assign_size(c, v) ==
    /\ c \in 1..Len(canopies)
    /\ canopies' = [canopies EXCEPT ![c].size = v]
    /\ last' = [op |-> "assign_size", recv |-> c, arg |-> v, ret |-> 0,
                raised |-> None]
    /\ UNCHANGED <<elements, clouds, returned>>

\* canopy.instanced_canopy_elements[j].instance_positions = v
assign_instance_positions(c, k, v) ==
    /\ c \in 1..Len(canopies)
    /\ k \in 1..Len(canopies[c].instanced_canopy_elements)
    /\ elements' = [elements EXCEPT
                        ![canopies[c].instanced_canopy_elements[k]].instance_positions = v]
    /\ last' = [op |-> "assign_instance_positions", recv |-> c, arg |-> v, ret |-> 0,
                raised |-> None]
    /\ UNCHANGED <<canopies, clouds, returned>>

-----------------------------------------------------------------------------
(* _leaf_cloud_positions_cuboid_avoid_overlap                              *)

\* no placer call is in progress
PlaceIdle ==
    /\ pargs = None /\ pc = "idle" /\ i_leaf = 0 /\ j_attempt = 0
    /\ positions = <<>> /\ tree = {} /\ presult = None

\* (mutant) the horizontal coordinates are not centred on the origin
pos_candidate_uncentred(rand, l_horizontal, l_vertical) ==
    <<RMul(rand[1], l_horizontal), RMul(rand[2], l_horizontal),
      RMul(rand[3], l_vertical)>>

\* pos_candidate from rand = rng.random(3)
pos_candidate(rand, l_horizontal, l_vertical) ==
    <<RSub(RMul(rand[1], l_horizontal), RMul(Half, l_horizontal)),
      RSub(RMul(rand[2], l_horizontal), RMul(Half, l_horizontal)),
      RMul(rand[3], l_vertical)>>

\* aabbtree.AABB of the candidate inflated by leaf_radius: its (lower, upper)
\* limits on the three axes
AABB(pos, leaf_radius) ==
    [k \in 1..3 |-> <<RSub(pos[k], leaf_radius), RAdd(pos[k], leaf_radius)>>]

\* AABB.overlaps of the aabbtree library: on every axis the intervals meet,
\* at more than an end point unless `closed` (the default differs between
\* the releases of the library)
overlaps(a, b, closed) ==
    \A k \in 1..3 :
        IF closed
        THEN RLe(a[k][1], b[k][2]) /\ RLe(b[k][1], a[k][2])
        ELSE RLt(a[k][1], b[k][2]) /\ RLt(b[k][1], a[k][2])

\* (mutant) the candidate is tested against no box
does_overlap_none(boxes, aabb, closed) == FALSE

\* AABBTree.does_overlap: the box overlaps a box of the tree
does_overlap(boxes, aabb, closed) == \E b \in boxes : overlaps(b, aabb, closed)

\* (mutant) one attempt more than n_attempts
exhausted_late(attempt, n_attempts) == attempt > n_attempts

\* for j in range(n_attempts): the loop is over, no attempt is left
exhausted(attempt, n_attempts) == attempt >= n_attempts

\* (mutant) the box of a placed leaf is not indexed
tree_add_dropped(boxes, aabb) == boxes

\* tree.add(aabb)
tree_add(boxes, aabb) == boxes \cup {aabb}

\* one iteration of the loop over the attempts for leaf i
place_attempt(rand) ==
    /\ pc = "placing"
    /\ i_leaf < pargs.n_leaves
    /\ ~exhausted(j_attempt, pargs.n_attempts)
    /\ \E pos \in {pos_candidate(rand, pargs.l_horizontal, pargs.l_vertical)} :
       \E aabb \in {AABB(pos, pargs.leaf_radius)} :
           IF i_leaf = 0 \/ ~does_overlap(tree, aabb, pargs.closed)
           THEN \* positions[i, :] = pos_candidate; tree.add(aabb); break
                /\ positions' = Append(positions, pos)
                /\ tree' = tree_add(tree, aabb)
                /\ i_leaf' = i_leaf + 1
                /\ j_attempt' = 0
           ELSE /\ j_attempt' = j_attempt + 1
                /\ UNCHANGED <<positions, tree, i_leaf>>
    /\ UNCHANGED <<pargs, pc, presult>>

\* the else of the for loop: no attempt placed leaf i
place_exhausted ==
    /\ pc = "placing"
    /\ i_leaf < pargs.n_leaves
    /\ exhausted(j_attempt, pargs.n_attempts)
    /\ pc' = "raised"
    /\ UNCHANGED <<pargs, i_leaf, j_attempt, positions, tree, presult>>

\* (mutant) the function returns before the last leaf is placed
place_return_early ==
    /\ pc = "placing"
    /\ pc' = "returned"
    /\ presult' = positions
    /\ UNCHANGED <<pargs, i_leaf, j_attempt, positions, tree>>

\* return positions
place_return ==
    /\ pc = "placing"
    /\ i_leaf >= pargs.n_leaves
    /\ pc' = "returned"
    /\ presult' = positions
    /\ UNCHANGED <<pargs, i_leaf, j_attempt, positions, tree>>

-----------------------------------------------------------------------------
(* Parameter objects: LeafCloudParams and its four subclasses.             *)
(* A numeric field holds a fraction, or NoValue for Python's None; lai is  *)
(* held in units of pi, which makes every formula below exact.            *)

NoValue == <<>>

Shapes == {"cuboid", "sphere", "cylinder", "cone"}

\* the names of the attrs fields of a class without the leading underscore,
\* in definition order: the fields of the base class come first
Fields(cls) ==
    <<"id", "leaf_reflectance", "leaf_transmittance", "mu", "nu",
      "n_leaves", "leaf_radius">>
    \o (CASE cls = "cuboid" -> <<"l_horizontal", "l_vertical", "lai", "hdo", "hvr">>
          [] cls = "sphere" -> <<"radius">>
          [] OTHER -> <<"radius", "l_vertical">>)

\* kwargs.get(name, default)
Get(kw, name, default) == IF name \in DOMAIN kw THEN kw[name] ELSE default

\* the value of a keyword argument, or the default of the field
Arg(kw, name, default) ==
    IF name \in DOMAIN kw /\ kw[name] # NoValue THEN kw[name] ELSE default

\* the attrs-generated __init__: every field is the argument or its default
attrs_init(cls, kw) ==
    [cls |-> cls,
     id |-> Get(kw, "id", "leaf_cloud"),
     leaf_reflectance |-> Half,
     leaf_transmittance |-> Half,
     mu |-> Arg(kw, "mu", Frac(533, 500)),
     nu |-> Arg(kw, "nu", Frac(1853, 1000)),
     n_leaves |-> Arg(kw, "n_leaves", NoValue),
     leaf_radius |-> Arg(kw, "leaf_radius", NoValue)]
    @@ (CASE cls = "cuboid" ->
               [l_horizontal |-> Arg(kw, "l_horizontal", NoValue),
                l_vertical |-> Arg(kw, "l_vertical", NoValue),
                lai |-> Arg(kw, "lai", NoValue),
                hdo |-> Arg(kw, "hdo", NoValue),
                hvr |-> Arg(kw, "hvr", NoValue)]
          [] cls = "sphere" -> [radius |-> Arg(kw, "radius", Whole(1))]
          [] OTHER -> [radius |-> Arg(kw, "radius", Whole(1)),
                       l_vertical |-> Arg(kw, "l_vertical", Whole(1))])

\* the formulas of the derived fields of CuboidLeafCloudParams
cuboid_n_leaves(lai, l_horizontal, leaf_radius) ==
    Whole(Floor(RMul(lai, RSq(RDiv(l_horizontal, leaf_radius)))))

cuboid_lai_inverted(leaf_radius, l_horizontal, n_leaves) ==
    RMul(RSq(RDiv(l_horizontal, leaf_radius)), n_leaves)

cuboid_lai(leaf_radius, l_horizontal, n_leaves) ==
    RMul(RSq(RDiv(leaf_radius, l_horizontal)), n_leaves)

cuboid_leaf_radius(lai, n_leaves, l_horizontal) ==
    RMul(RSqrt(RDiv(lai, n_leaves)), l_horizontal)

cuboid_l_horizontal(leaf_radius, n_leaves, lai) ==
    RDiv(RMul(RSq(leaf_radius), n_leaves), lai)

cuboid_l_vertical(lai, hdo, leaf_radius, hvr) ==
    RDiv(RMul(lai, RMul(hdo, RSq(hdo))), RMul(RSq(leaf_radius), hvr))

\* (mutant) the property l_vertical returns the field without deriving it
CuboidDerivedFlat == {"n_leaves", "lai", "leaf_radius", "l_horizontal"}

CuboidDerived == {"n_leaves", "lai", "leaf_radius", "l_horizontal", "l_vertical"}

\* the properties a derived field reads, in the order Python evaluates the
\* expression: the operands of a stage are all read before the arithmetic
\* that raises TypeError when one of them is None
Stages(f) ==
    CASE f = "n_leaves" -> << <<"lai", "l_horizontal", "leaf_radius">> >>
      [] f = "lai" -> << <<"leaf_radius", "l_horizontal">>, <<"n_leaves">> >>
      [] f = "leaf_radius" -> << <<"lai", "n_leaves">>, <<"l_horizontal">> >>
      [] f = "l_horizontal" -> << <<"leaf_radius">>, <<"n_leaves">>, <<"lai">> >>
      [] f = "l_vertical" -> << <<"lai", "hdo">>, <<"leaf_radius">>, <<"hvr">> >>

Formula(f, v) ==
    CASE f = "n_leaves" -> cuboid_n_leaves(v[1], v[2], v[3])
      [] f = "lai" -> cuboid_lai(v[1], v[2], v[3])
      [] f = "leaf_radius" -> cuboid_leaf_radius(v[1], v[2], v[3])
      [] f = "l_horizontal" -> cuboid_l_horizontal(v[1], v[2], v[3])
      [] f = "l_vertical" -> cuboid_l_vertical(v[1], v[2], v[3], v[4])

\* what a property access does: the object afterwards, and the value or the
\* exception
Return(o, v) == [o |-> o, val |-> v, exc |-> None]
Raise(o, e) == [o |-> o, val |-> NoValue, exc |-> e]

RECURSIVE getattribute(_, _, _)
RECURSIVE read_stage(_, _, _)
RECURSIVE read_stages(_, _, _)

\* reads the properties fs of o in order; stops at the first exception
read_stage(o, fs, stk) ==
    IF fs = <<>> THEN [o |-> o, vals |-> <<>>, exc |-> None]
    ELSE LET h == getattribute(o, Head(fs), stk)
         IN  IF h.exc # None THEN [o |-> h.o, vals |-> <<>>, exc |-> h.exc]
             ELSE LET t == read_stage(h.o, Tail(fs), stk)
                  IN  [o |-> t.o, vals |-> <<h.val>> \o t.vals, exc |-> t.exc]

\* evaluates the stages in order; arithmetic on None raises TypeError
read_stages(o, stages, stk) ==
    IF stages = <<>> THEN [o |-> o, vals |-> <<>>, exc |-> None]
    ELSE LET h == read_stage(o, Head(stages), stk)
         IN  IF h.exc # None THEN h
             ELSE IF \E k \in 1..Len(h.vals) : h.vals[k] = NoValue
             THEN [o |-> h.o, vals |-> <<>>, exc |-> "TypeError"]
             ELSE LET t == read_stages(h.o, Tail(stages), stk)
                  IN  [o |-> t.o, vals |-> h.vals \o t.vals, exc |-> t.exc]

\* self.<f>: the property f of the object o, while the properties stk are
\* being evaluated. A derived cuboid field that is None is computed from
\* other properties and stored; a property that is reached again while it
\* is being evaluated recurses until Python raises RecursionError.
getattribute(o, f, stk) ==
    IF o.cls = "cuboid" /\ f \in CuboidDerived
    THEN IF o[f] # NoValue THEN Return(o, o[f])
         ELSE IF f \in stk THEN Raise(o, "RecursionError")
         ELSE LET r == read_stages(o, Stages(f), stk \cup {f})
              IN  IF r.exc # None THEN Raise(r.o, r.exc)
                  ELSE LET v == Formula(f, r.vals)
                       IN  Return([r.o EXCEPT ![f] = v], v)
    ELSE Return(o, o[f])

ParamsIdle ==
    /\ kwargs = None /\ obj = None /\ field = 0
    /\ ppc = "idle" /\ perr = None /\ params = None

\* one iteration of the loop of update(), which __attrs_post_init__ calls
update_step ==
    /\ ppc = "update"
    /\ field <= Len(Fields(obj.cls))
    /\ LET name == Fields(obj.cls)[field]
           r == getattribute(obj, name, {})
       IN  IF r.exc = None
           THEN /\ obj' = r.o
                /\ field' = field + 1
                /\ UNCHANGED <<ppc, perr>>
           ELSE /\ ppc' = "raised"
                /\ perr' = [field |-> name, cause |-> r.exc]
                /\ UNCHANGED <<obj, field>>
    /\ UNCHANGED <<kwargs, params>>

\* the loop is over: the constructor returns the object
update_return ==
    /\ ppc = "update"
    /\ field > Len(Fields(obj.cls))
    /\ ppc' = "constructed"
    /\ params' = obj
    /\ UNCHANGED <<kwargs, obj, field, perr>>

\* (mutant) a derived property computes its value at each read
read_field_recomputed(o, f) ==
    IF o.cls = "cuboid" /\ f \in CuboidDerived
    THEN getattribute([o EXCEPT ![f] = NoValue], f, {})
    ELSE getattribute(o, f, {})

\* params.<f>, read by a caller
read_field(o, f) == getattribute(o, f, {})

\* a caller reads the field f of the object the constructor returned
params_read(f) ==
    /\ ppc = "constructed"
    /\ Len(reads) < MaxReads
    /\ LET r == read_field(params, f)
       IN  /\ params' = r.o
           /\ reads' = Append(reads, [field |-> f, val |-> r.val, exc |-> r.exc])
    /\ UNCHANGED <<kwargs, obj, field, ppc, perr>>

-----------------------------------------------------------------------------
(* The leaf cloud generators: LeafCloud.cuboid, sphere, cylinder and cone, *)
(* with the functions that compute positions, orientations and radii.      *)

GenIdle ==
    /\ gcall = None /\ gpc = "idle" /\ rng = 0
    /\ gen_positions = None /\ gen_orientations = <<>> /\ theta = NoValue
    /\ gresult = None /\ gerr = None

\* no caller is modelled
CallerIdle == history = {} /\ ncalls = 0

\* DiscreteCanopy.homogeneous is not called
HomIdle ==
    /\ hcall = None /\ hpc = "idle" /\ hsize = None
    /\ herr = None /\ hresult = 0

\* DiscreteCanopy.leaf_cloud_from_files is not called
FromIdle ==
    /\ fcall = None /\ fpc = "idle" /\ i_dict = 0
    /\ instanced_canopy_elements = <<>> /\ ferr = None /\ fresult = 0

\* no kernel dictionary is asked for
NoCall == [op |-> "none"]
KernelIdle == trees = <<>> /\ kcall = NoCall /\ kresult = <<>> /\ kerr = None

\* there is no file, and no constructor is called
ReadIdle == disk = <<>> /\ rcall = NoCall /\ rresult = NoCall

LaterIdle == FromIdle /\ KernelIdle /\ ReadIdle

MoreIdle == CallerIdle /\ HomIdle /\ reads = <<>> /\ LaterIdle

\* np.random.default_rng(seed): the k-th value (from 0) the generator of a
\* seed returns, a number of [0, 1); the same seed gives the same values
rng_random(seed, k) == Frac(1 + 2 * ((3 * k + seed + (k \div 3)) % 4), 8)

\* rng.random(3) and rng.random(2) when k values were drawn before
random3(seed, k) ==
    <<rng_random(seed, k), rng_random(seed, k + 1), rng_random(seed, k + 2)>>
random2(seed, k) == <<rng_random(seed, k), rng_random(seed, k + 1)>>

\* np.power(x, 1.0 / m) for m whose inverse is a whole number
RECURSIVE RPow(_, _)
RPow(x, n) == IF n = 0 THEN Whole(1) ELSE RMul(x, RPow(x, n - 1))
power_inv(x, m) == RPow(x, RDiv(Whole(1), m)[1])

\* an argument at a call: a pint quantity, a plain number, or None
Quantity(v) == [kind |-> "Quantity", v |-> v]
Plain(v) == [kind |-> "int", v |-> v]
NoneArg == [kind |-> "None", v |-> NoValue]

\* the value of a field of a parameter object as an argument: the fields
\* declared with units hold quantities, n_leaves a plain number
ParamArg(o, f) ==
    IF o[f] = NoValue THEN NoneArg
    ELSE IF f = "n_leaves" THEN Plain(o[f]) ELSE Quantity(o[f])

\* the power of length in the units of a field of a cuboid parameter
\* object: a supplied l_horizontal is a length, the one the property derives
\* is pi * leaf_radius ** 2 * n_leaves / lai, an area
length_power(kw, f) ==
    IF f = "l_horizontal" /\ Get(kw, "l_horizontal", NoValue) = NoValue
    THEN 2 ELSE 1

\* the function that computes the positions of a call
position_function(c) ==
    IF c.shape = "cuboid" /\ c.avoid_overlap THEN "cuboid_avoid_overlap" ELSE c.shape

\* the units ureg.wraps declares for the arguments before rng: TRUE for
\* ureg.m, FALSE for None
wraps_units(fn) ==
    CASE fn = "cuboid" -> <<FALSE, TRUE, TRUE>>
      [] fn = "cuboid_avoid_overlap" -> <<FALSE, TRUE, TRUE, TRUE, FALSE>>
      [] fn = "sphere" -> <<FALSE, TRUE>>
      [] OTHER -> <<FALSE, TRUE, TRUE>>

\* the arguments the generator passes to the position function, in the
\* order of the call
position_args(c, o) ==
    CASE position_function(c) = "cuboid" ->
            <<ParamArg(o, "n_leaves"), ParamArg(o, "l_horizontal"),
              ParamArg(o, "l_vertical")>>
      [] position_function(c) = "cuboid_avoid_overlap" ->
            <<ParamArg(o, "n_leaves"), ParamArg(o, "l_horizontal"),
              ParamArg(o, "l_vertical"), ParamArg(o, "leaf_radius"),
              Plain(Whole(c.n_attempts))>>
      [] position_function(c) = "sphere" ->
            <<ParamArg(o, "radius"), ParamArg(o, "n_leaves")>>
      [] OTHER ->
            <<ParamArg(o, "n_leaves"), ParamArg(o, "radius"),
              ParamArg(o, "l_vertical")>>

\* ureg.wraps in strict mode: an argument declared with units is a quantity
wraps_strict(units, args) ==
    \A k \in 1..Len(units) : units[k] => args[k].kind = "Quantity"

\* the parameters of the position function bound to the arguments, by position
position_frame(c, args) ==
    [n_leaves |-> args[1].v[1],
     closed |-> c.closed] @@
    (CASE position_function(c) = "cuboid" ->
            [l_horizontal |-> args[2].v, l_vertical |-> args[3].v]
       [] position_function(c) = "cuboid_avoid_overlap" ->
            [l_horizontal |-> args[2].v, l_vertical |-> args[3].v,
             leaf_radius |-> args[4].v, n_attempts |-> args[5].v[1]]
       [] position_function(c) = "sphere" -> [radius |-> args[2].v]
       [] OTHER -> [radius |-> args[2].v, l_vertical |-> args[3].v])

\* the row of `positions` the position function computes from rand. The
\* cuboid row is Cartesian; the other rows are held in the coordinates the
\* function draws, before the sines, cosines and roots are taken:
\*   sphere   <<theta / pi, phi / (2 pi), r>>
\*   cylinder <<phi / (2 pi), r, z>>
\*   cone     <<(h / l_vertical)^3, (r l_vertical / (radius h))^2, phi / (2 pi)>>
position_row(fn, rand, a) ==
    CASE fn = "cuboid" -> pos_candidate(rand, a.l_horizontal, a.l_vertical)
      [] fn = "sphere" -> <<rand[1], rand[2], RMul(rand[3], a.radius)>>
      [] fn = "cylinder" ->
            <<rand[1], RMul(rand[2], a.radius), RMul(rand[3], a.l_vertical)>>
      [] OTHER -> <<rand[1], rand[2], rand[3]>>

\* the generator raises e
gen_raise(e) ==
    /\ gpc' = "raised" /\ gerr' = e
    /\ UNCHANGED <<gcall, rng, gen_positions, gen_orientations, theta, gresult>>

\* the constructor of the parameter object raised: the exception propagates
gen_params_raised ==
    /\ gpc = "params" /\ ppc = "raised"
    /\ gen_raise("Exception")
    /\ UNCHANGED <<paramVars, placeVars>>

\* the call of the position function: the check of the arguments by
\* ureg.wraps, then np.empty((n_leaves, 3)) and the start of the loop
gen_positions_call ==
    /\ gpc = "params" /\ ppc = "constructed"
    /\ LET fn == position_function(gcall)
           args == position_args(gcall, params)
       IN  IF ~wraps_strict(wraps_units(fn), args)
           THEN gen_raise("ValueError") /\ UNCHANGED placeVars
           ELSE IF /\ fn \in {"cuboid", "cuboid_avoid_overlap"}
                   /\ length_power(kwargs, "l_horizontal") # 1
           THEN gen_raise("DimensionalityError") /\ UNCHANGED placeVars
           ELSE IF args[1].kind # "int"
           THEN gen_raise("TypeError") /\ UNCHANGED placeVars
           ELSE /\ gpc' = "positions"
                /\ pargs' = position_frame(gcall, args)
                /\ pc' = "placing"
                /\ i_leaf' = 0 /\ j_attempt' = 0
                /\ positions' = <<>> /\ tree' = {}
                /\ UNCHANGED <<presult, gcall, rng, gen_positions,
                               gen_orientations, theta, gresult, gerr>>
    /\ UNCHANGED paramVars

\* one iteration of the loop of a position function without collision checks
gen_position_step ==
    /\ gpc = "positions" /\ pc = "placing"
    /\ position_function(gcall) # "cuboid_avoid_overlap"
    /\ i_leaf < pargs.n_leaves
    /\ rng + 3 <= MaxDraws
    /\ positions' = Append(positions,
            position_row(position_function(gcall), random3(gcall.seed, rng), pargs))
    /\ i_leaf' = i_leaf + 1
    /\ rng' = rng + 3
    /\ UNCHANGED <<pargs, pc, j_attempt, tree, presult>>
    /\ UNCHANGED <<gcall, gpc, gen_positions, gen_orientations, theta, gresult, gerr>>
    /\ UNCHANGED paramVars

\* one attempt of the position function with collision checks
gen_place_attempt ==
    /\ gpc = "positions"
    /\ position_function(gcall) = "cuboid_avoid_overlap"
    /\ rng + 3 <= MaxDraws
    /\ place_attempt(random3(gcall.seed, rng))
    /\ rng' = rng + 3
    /\ UNCHANGED <<gcall, gpc, gen_positions, gen_orientations, theta, gresult, gerr>>
    /\ UNCHANGED paramVars

\* the position function with collision checks raises: the call ends
gen_place_exhausted ==
    /\ gpc = "positions"
    /\ position_function(gcall) = "cuboid_avoid_overlap"
    /\ place_exhausted
    /\ gen_raise("RuntimeError")
    /\ UNCHANGED paramVars

\* the position function returns: leaf_positions = positions
gen_positions_return ==
    /\ gpc = "positions"
    /\ place_return
    /\ gen_positions' = positions
    /\ gpc' = "orientations"
    /\ UNCHANGED <<gcall, rng, gen_orientations, theta, gresult, gerr>>
    /\ UNCHANGED paramVars

\* (mutant) a trial with s = 1 is rejected
accepted_below_one(s) == RLt(s, Whole(1))

\* if s <= 1
accepted(s) == RLe(s, Whole(1))

\* one iteration of the loop of _inversebeta on rands = rng.random(2):
\* theta becomes the value returned, or stays NoValue when the loop goes on
inversebeta_trial(rands, mu, nu) ==
    \E s1 \in {power_inv(rands[1], mu)}, s2 \in {power_inv(rands[2], nu)} :
        \E s \in {RAdd(s1, s2)} :
            theta' = IF accepted(s) THEN RDiv(s1, s) ELSE NoValue

\* _inversebeta: one iteration of its loop, which returns when s <= 1
inversebeta_step ==
    /\ gpc = "orientations"
    /\ Len(gen_orientations) < params.n_leaves[1]
    /\ theta = NoValue
    /\ rng + 2 <= MaxDraws
    /\ \E rands \in {random2(gcall.seed, rng)} :
         inversebeta_trial(rands, params.mu, params.nu)
    /\ rng' = rng + 2
    /\ UNCHANGED <<gcall, gpc, gen_positions, gen_orientations, gresult, gerr>>
    /\ UNCHANGED <<paramVars, placeVars>>

\* _leaf_cloud_orientations: the rest of an iteration: phi is drawn and the
\* row is filled, held as <<theta, phi / 360>> before the sines and cosines
orientation_step ==
    /\ gpc = "orientations"
    /\ theta # NoValue
    /\ rng + 1 <= MaxDraws
    /\ gen_orientations' = Append(gen_orientations, <<theta, rng_random(gcall.seed, rng)>>)
    /\ theta' = NoValue
    /\ rng' = rng + 1
    /\ UNCHANGED <<gcall, gpc, gen_positions, gresult, gerr>>
    /\ UNCHANGED <<paramVars, placeVars>>

\* _leaf_cloud_radii: np.full((n_leaves,), leaf_radius)
leaf_cloud_radii(n_leaves, leaf_radius) == [k \in 1..n_leaves |-> leaf_radius]

\* the validators of LeafCloud: the three arrays have the same length
same_length(p, o, r) == Len(p) = Len(o) /\ Len(o) = Len(r)

\* the orientations are complete: the radii are computed and the leaf
\* cloud is constructed and returned
gen_return ==
    /\ gpc = "orientations"
    /\ Len(gen_orientations) >= params.n_leaves[1]
    /\ LET r == ParamArg(params, "leaf_radius")
       IN  IF ~wraps_strict(<<FALSE, TRUE>>, <<ParamArg(params, "n_leaves"), r>>)
           THEN gen_raise("ValueError")
           ELSE LET radii == leaf_cloud_radii(params.n_leaves[1], r.v)
                IN  IF ~same_length(gen_positions, gen_orientations, radii)
                    THEN gen_raise("ValueError")
                    ELSE /\ gresult' = [id |-> params.id,
                                        leaf_positions |-> gen_positions,
                                        leaf_orientations |-> gen_orientations,
                                        leaf_radii |-> radii]
                         /\ gpc' = "returned"
                         /\ UNCHANGED <<gcall, rng, gen_positions,
                                        gen_orientations, theta, gerr>>
    /\ UNCHANGED <<paramVars, placeVars>>

-----------------------------------------------------------------------------
(* The heap specification: a caller that holds one canopy and calls        *)
(* padded, translated and the direct assignments in any order.             *)

\* A leaf cloud of leaves at the given positions (normals along z, radius 1).
LeafCloud(id, leaf_positions) ==
    [id |-> id,
     leaf_positions |-> leaf_positions,
     positions_ndim |-> 2,
     leaf_orientations |-> [i \in 1..Len(leaf_positions) |-> <<0, 0, 1>>],
     leaf_radii |-> [i \in 1..Len(leaf_positions) |-> 1]]

Init ==
    /\ \E n \in ElementCounts, size \in Sizes :
        /\ canopies = << [size |-> size,
                          instanced_canopy_elements |-> [j \in 1..n |-> j]] >>
        /\ \E ks \in [1..n -> 0..MaxInstances] :
             elements = [j \in 1..n |->
                            [canopy_element |-> LeafCloud(j, << <<0, 0, j>> >>),
                             instance_positions |->
                                [i \in 1..ks[j] |-> InstPoint(i, j)]]]
    /\ clouds = << LeafCloud(0, << <<0, 0, 1>>, <<1, 1, 0>> >>) >>
    /\ last = [op |-> "init", recv |-> 1, arg |-> None, ret |-> 1, raised |-> None]
    /\ returned = {}
    /\ PlaceIdle
    /\ ParamsIdle
    /\ GenIdle
    /\ MoreIdle

\* the paddings the caller passes: two invalid ones, zero and the valid ones
Paddings == -2..MaxPadding

\* the caller's record of what a padded call returned
Log == IF last'.op = "padded" /\ last'.raised = None
       THEN returned' = returned \cup {<<last'.recv, last'.arg, last'.ret>>}
       ELSE UNCHANGED returned

Padded ==
    /\ \E c \in 1..MaxCanopies, padding \in Paddings : padded(c, padding)
    /\ UNCHANGED returned
    /\ UNCHANGED <<placeVars, paramVars, genVars, moreVars>>

PaddedLogged ==
    /\ \E c \in 1..MaxCanopies, padding \in Paddings : padded(c, padding)
    /\ Log
    /\ UNCHANGED <<placeVars, paramVars, genVars, moreVars>>

Translated ==
    /\ \E l \in 1..Len(clouds), xyz \in XyzInputs : translated(l, xyz)
    /\ UNCHANGED <<placeVars, paramVars, genVars, moreVars>>

AssignSize ==
    /\ \E c \in 1..MaxCanopies, v \in AssignedSizes : assign_size(c, v)
    /\ UNCHANGED <<placeVars, paramVars, genVars, moreVars>>

AssignInstancePositions ==
    /\ \E c \in 1..MaxCanopies, k \in 1..2, v \in AssignedPositions :
            assign_instance_positions(c, k, v)
    /\ UNCHANGED <<placeVars, paramVars, genVars, moreVars>>

Next == Padded \/ Translated

Spec == Init /\ [][Next]_vars

\* The same caller, which also assigns to the fields of the canopies it holds.
NextAssign == PaddedLogged \/ AssignSize \/ AssignInstancePositions

SpecAssign == Init /\ [][NextAssign]_vars

-----------------------------------------------------------------------------
(* The composition specification: a caller that holds one canopy, pads it  *)
(* twice in a row and pads it once with the padding that covers the same   *)
(* grid of copies.                                                         *)

\* the caller composes paddings of 1 .. MaxComposed
MaxComposed == 2

\* the instance positions of the first element: none, one, the same point
\* twice, two points in both orders, two points one cell apart along x
ComposedPositions(size) ==
    { <<>>,
      << <<0, 0, 0>> >>,
      << <<1, 1, 0>>, <<1, 1, 0>> >>,
      << <<0, 0, 0>>, <<1, -2, 5>> >>,
      << <<1, -2, 5>>, <<0, 0, 0>> >>,
      << <<0, 1, 0>>, <<size[1], 1, 0>> >> }

ComposedSizes == {<<2, 3, 1>>, <<1, 1, 4>>}

InitComposed ==
    /\ \E n \in ElementCounts, size \in ComposedSizes :
       \E first \in ComposedPositions(size) :
        /\ canopies = << [size |-> size,
                          instanced_canopy_elements |-> [j \in 1..n |-> j]] >>
        /\ elements = [j \in 1..n |->
                          [canopy_element |-> LeafCloud(j, << <<0, 0, j>> >>),
                           instance_positions |->
                              IF j = 1 THEN first ELSE << InstPoint(1, j) >>]]
    /\ clouds = <<>>
    /\ last = [op |-> "init", recv |-> 1, arg |-> None, ret |-> 1, raised |-> None]
    /\ returned = {}
    /\ PlaceIdle
    /\ ParamsIdle
    /\ GenIdle
    /\ MoreIdle

ComposedFrame == UNCHANGED <<placeVars, paramVars, genVars, moreVars>>

\* first = canopy.padded(p)
PaddedFirst ==
    /\ Len(canopies) = 1
    /\ \E p \in 1..MaxComposed : padded_in(1, p, Len(canopies) + 1)
    /\ Log
    /\ ComposedFrame

\* second = first.padded(q)
PaddedSecond ==
    /\ Len(canopies) = 2
    /\ \E q \in 1..MaxComposed : padded_in(2, q, Len(canopies) + 1)
    /\ Log
    /\ ComposedFrame

\* direct = canopy.padded(2 * p * q + p + q)
PaddedDirect ==
    /\ Len(canopies) = 3
    /\ \E p \in 1..MaxComposed, q \in 1..MaxComposed :
          /\ <<1, p, 2>> \in returned
          /\ <<2, q, 3>> \in returned
          /\ padded_in(1, 2 * p * q + p + q, Len(canopies) + 1)
    /\ Log
    /\ ComposedFrame

NextComposed == PaddedFirst \/ PaddedSecond \/ PaddedDirect

SpecComposed == InitComposed /\ [][NextComposed]_vars

-----------------------------------------------------------------------------
(* The translation specification: a caller that holds one leaf cloud, of   *)
(* zero to two leaves or the default one, and calls translated.            *)

\* LeafCloud(): the fields hold the arrays of empty lists
DefaultLeafCloud ==
    [id |-> "leaf_cloud",
     leaf_positions |-> <<>>,
     positions_ndim |-> 1,
     leaf_orientations |-> <<>>,
     leaf_radii |-> <<>>]

TranslatedClouds ==
    { LeafCloud("leaf_cloud", <<>>),
      LeafCloud("leaf_cloud", << <<0, 0, 1>> >>),
      LeafCloud("leaf_cloud", << <<0, 0, 1>>, <<1, 1, 0>> >>),
      LeafCloud("other", << <<2, -1, 0>>, <<0, 3, 1>> >>),
      DefaultLeafCloud }

\* the arguments: 3-vectors, a 1-D array of two numbers, and 2-D arrays of
\* the shapes (1, 3), (2, 3) and (2, 2)
TranslatedInputs ==
    XyzInputs \cup
    { [ndim |-> 1, data |-> <<0, 0, 5>>],
      [ndim |-> 2, data |-> << <<1, 2, 3>> >>],
      [ndim |-> 2, data |-> << <<0, 0, 0>>, <<1, 1, 1>> >>] }

InitTranslated ==
    /\ canopies = <<>> /\ elements = <<>>
    /\ \E cloud \in TranslatedClouds : clouds = <<cloud>>
    /\ last = [op |-> "init", recv |-> 1, arg |-> None, ret |-> 1, raised |-> None]
    /\ returned = {}
    /\ PlaceIdle /\ ParamsIdle /\ GenIdle /\ MoreIdle

TranslatedBy ==
    /\ \E l \in 1..Len(clouds), xyz \in TranslatedInputs : translated(l, xyz)
    /\ UNCHANGED <<placeVars, paramVars, genVars, moreVars>>

NextTranslated == TranslatedBy

SpecTranslated == InitTranslated /\ [][NextTranslated]_vars

-----------------------------------------------------------------------------
(* The placer specification: one call of the placer, for every choice of   *)
(* its arguments and every sequence of draws of the generator.             *)

HeapIdle ==
    /\ canopies = <<>> /\ elements = <<>> /\ clouds = <<>>
    /\ last = None /\ returned = {}

\* the draws rng.random(3) of the model: triples of numbers of [0, 1)
PlaceDraws ==
    { <<Whole(0), Whole(0), Whole(0)>>,
      <<Half, Whole(0), Whole(0)>>,
      <<Frac(3, 4), Whole(0), Whole(0)>>,
      <<Whole(0), Half, Half>>,
      <<Half, Frac(3, 4), Half>>,
      <<Frac(3, 4), Frac(3, 4), Frac(3, 4)>> }

LeafRadii == {Half, Whole(1)}

InitPlace ==
    /\ HeapIdle
    /\ \E n \in 0..MaxLeaves, a \in 0..MaxAttempts, r \in LeafRadii, c \in BOOLEAN :
         pargs = [n_leaves |-> n, l_horizontal |-> Whole(4), l_vertical |-> Whole(2),
                  leaf_radius |-> r, n_attempts |-> a, closed |-> c]
    /\ pc = "placing" /\ i_leaf = 0 /\ j_attempt = 0
    /\ positions = <<>> /\ tree = {} /\ presult = None
    /\ ParamsIdle
    /\ GenIdle
    /\ MoreIdle

PlaceAttempt == (\E rand \in PlaceDraws : place_attempt(rand)) /\ UNCHANGED <<heapVars, paramVars, genVars, moreVars>>

PlaceExhausted == place_exhausted /\ UNCHANGED <<heapVars, paramVars, genVars, moreVars>>

PlaceReturn == place_return /\ UNCHANGED <<heapVars, paramVars, genVars, moreVars>>

NextPlace == PlaceAttempt \/ PlaceExhausted \/ PlaceReturn

SpecPlace == InitPlace /\ [][NextPlace]_vars

\* The placer on the stream of the generator it is given: every candidate
\* takes the next three values of the stream, of which rng counts the values
\* taken. The stream is any sequence of MaxStream draws, repeated. The loops
\* of the function are sequential code: a step that can be taken is taken,
\* which is the weak fairness of the specification.
MaxStream == 3

StreamDraws ==
    { <<Whole(0), Whole(0), Whole(0)>>,
      <<Half, Whole(0), Whole(0)>>,
      <<Frac(3, 4), Whole(0), Whole(0)>> }

\* rng.random(3) when k values were drawn before
stream_random3(stream, k) == stream[((k \div 3) % Len(stream)) + 1]

InitPlaceDraws ==
    /\ HeapIdle
    /\ \E n \in 0..MaxLeaves, a \in 0..MaxAttempts, r \in LeafRadii, c \in BOOLEAN,
          stream \in [1..MaxStream -> StreamDraws] :
         pargs = [n_leaves |-> n, l_horizontal |-> Whole(4), l_vertical |-> Whole(2),
                  leaf_radius |-> r, n_attempts |-> a, closed |-> c, rng |-> stream]
    /\ pc = "placing" /\ i_leaf = 0 /\ j_attempt = 0
    /\ positions = <<>> /\ tree = {} /\ presult = NoValue
    /\ ParamsIdle
    /\ GenIdle
    /\ MoreIdle

PlaceDrawAttempt ==
    /\ \E rand \in {stream_random3(pargs.rng, rng)} : place_attempt(rand)
    /\ rng' = rng + 3
    /\ UNCHANGED <<gcall, gpc, gen_positions, gen_orientations, theta, gresult, gerr>>
    /\ UNCHANGED <<heapVars, paramVars, moreVars>>

NextPlaceDraws == PlaceDrawAttempt \/ PlaceExhausted \/ PlaceReturn

\* every step of the placer changes one of these
placeCounters == <<pc, i_leaf, j_attempt>>

SpecPlaceDraws ==
    InitPlaceDraws /\ [][NextPlaceDraws]_vars /\ WF_placeCounters(NextPlaceDraws)

-----------------------------------------------------------------------------
(* One call of _inversebeta on the stream of the generator it is given:    *)
(* any sequence of MaxStream pairs of draws, repeated for ever. The        *)
(* position in the stream is kept modulo its length, which leaves the      *)
(* number of trials without a bound, as the loop of the function is. The   *)
(* loop is sequential code: the next trial is made, which is the weak      *)
(* fairness of the specification.                                          *)

TrialDraws == {<<Half, Half>>, <<Frac(3, 4), Frac(3, 4)>>,
               <<Half, Frac(3, 4)>>, <<Frac(3, 4), Half>>}

\* mu and nu: the powers 1 / mu and 1 / nu are whole
TrialExponents == {<<Whole(1), Half>>, <<Half, Whole(1)>>, <<Whole(1), Whole(1)>>}

InitInverseBeta ==
    /\ HeapIdle /\ ParamsIdle /\ MoreIdle
    /\ \E e \in TrialExponents, stream \in [1..MaxStream -> TrialDraws] :
         pargs = [mu |-> e[1], nu |-> e[2], rng |-> stream]
    /\ pc = "trials" /\ i_leaf = 0 /\ j_attempt = 0
    /\ positions = <<>> /\ tree = {} /\ presult = NoValue
    /\ GenIdle

\* one iteration of while True: the function returns the value, or goes on
InverseBetaTrial ==
    /\ pc = "trials"
    /\ \E rands \in {pargs.rng[rng + 1]} :
         inversebeta_trial(rands, pargs.mu, pargs.nu)
    /\ pc' = IF theta' = NoValue THEN "trials" ELSE "returned"
    /\ rng' = (rng + 1) % Len(pargs.rng)
    /\ UNCHANGED <<pargs, i_leaf, j_attempt, positions, tree, presult>>
    /\ UNCHANGED <<gcall, gpc, gen_positions, gen_orientations, gresult, gerr>>
    /\ UNCHANGED <<heapVars, paramVars, moreVars>>

NextInverseBeta == InverseBetaTrial

SpecInverseBeta ==
    InitInverseBeta /\ [][NextInverseBeta]_vars /\ WF_vars(NextInverseBeta)

-----------------------------------------------------------------------------
(* The parameter specification: one construction of a parameter object,   *)
(* for every class and every choice of the keyword arguments.              *)

CuboidKwargs ==
    [n_leaves : {NoValue, Whole(1), Whole(4)},
     leaf_radius : {NoValue, Whole(1), Whole(2)},
     l_horizontal : {NoValue, Whole(1), Whole(2)},
     lai : {NoValue, Whole(1), Whole(4)},
     l_vertical : {NoValue, Whole(1)},
     hdo : {NoValue, Whole(1)},
     hvr : {NoValue, Whole(1)}]

SphereKwargs ==
    [n_leaves : {NoValue, Whole(1), Whole(4)},
     leaf_radius : {NoValue, Whole(1), Whole(2)},
     radius : {NoValue, Whole(2)}]

CylinderKwargs ==
    [n_leaves : {NoValue, Whole(1), Whole(4)},
     leaf_radius : {NoValue, Whole(1), Whole(2)},
     radius : {NoValue, Whole(2)},
     l_vertical : {NoValue, Whole(2)}]

Kwargs(cls) ==
    CASE cls = "cuboid" -> CuboidKwargs
      [] cls = "sphere" -> SphereKwargs
      [] OTHER -> CylinderKwargs

InitParams ==
    /\ HeapIdle
    /\ PlaceIdle
    /\ \E cls \in Shapes : \E kw \in Kwargs(cls) :
         /\ kwargs = kw
         /\ obj = attrs_init(cls, kw)
    /\ field = 1 /\ ppc = "update" /\ perr = None /\ params = None
    /\ GenIdle
    /\ MoreIdle

UpdateStep == update_step /\ UNCHANGED <<heapVars, placeVars, genVars, moreVars>>

UpdateReturn == update_return /\ UNCHANGED <<heapVars, placeVars, genVars, moreVars>>

NextParams == UpdateStep \/ UpdateReturn

SpecParams == InitParams /\ [][NextParams]_vars

\* The same construction, followed by reads of the fields of the object.

\* the fields the caller reads: the parameters of the shape
ReadFields(cls) ==
    {Fields(cls)[k] : k \in 1..Len(Fields(cls))}
        \ {"id", "leaf_reflectance", "leaf_transmittance", "mu", "nu"}

ParamsRead ==
    /\ \E f \in ReadFields(obj.cls) : params_read(f)
    /\ UNCHANGED <<heapVars, placeVars, genVars, callerVars, homVars, laterVars>>

NextReads == UpdateStep \/ UpdateReturn \/ ParamsRead

SpecReads == InitParams /\ [][NextReads]_vars

\* (mutant) the calls draw from one generator, created once
default_rng_shared(seed, drawn) == drawn

\* rng = np.random.default_rng(seed=seed): the number of values drawn from
\* the generator a call creates, whatever was drawn from others before
default_rng(seed, drawn) == 0

\* the first statements of a generator: rng is created, n_attempts is
\* popped from the keyword arguments and the constructor of the parameter
\* object is entered
gen_enter(c, kw) ==
    /\ gcall' = c
    /\ kwargs' = kw
    /\ obj' = attrs_init(c.shape, kw)
    /\ field' = 1 /\ ppc' = "update" /\ perr' = None /\ params' = None
    /\ pargs' = None /\ pc' = "idle" /\ i_leaf' = 0 /\ j_attempt' = 0
    /\ positions' = <<>> /\ tree' = {} /\ presult' = None
    /\ gpc' = "params"
    /\ rng' = default_rng(c.seed, rng)
    /\ gen_positions' = None /\ gen_orientations' = <<>> /\ theta' = NoValue
    /\ gresult' = None /\ gerr' = None

\* the caller keeps what the call returned and makes the next call
gen_next_call(c, kw) ==
    /\ gpc \in {"returned", "raised"}
    /\ ncalls < MaxCalls
    /\ ncalls' = ncalls + 1
    /\ history' = IF gpc = "returned"
                  THEN history \cup {[call |-> gcall, kwargs |-> kwargs,
                                      result |-> gresult]}
                  ELSE history
    /\ gen_enter(c, kw)

-----------------------------------------------------------------------------
(* The generator specification: one call of a generator, for every shape,  *)
(* seed and choice of the keyword arguments below.                         *)

Seeds == {0, 1, 2}

\* the keyword arguments of the calls: mu = 1 and nu = 1/2 (the powers
\* 1/mu and 1/nu are whole), with and without the leaf count or the radius
GenOrientation == [mu |-> Whole(1), nu |-> Half]

GenCuboidKwargs ==
    { [n_leaves |-> Whole(2), leaf_radius |-> Half, l_horizontal |-> Whole(4),
       l_vertical |-> Whole(2)] @@ GenOrientation,
      [n_leaves |-> Whole(2), leaf_radius |-> Whole(1), l_horizontal |-> Whole(2),
       l_vertical |-> Whole(2)] @@ GenOrientation,
      [lai |-> Half, leaf_radius |-> Whole(1), l_horizontal |-> Whole(2),
       l_vertical |-> Whole(2)] @@ GenOrientation,
      [n_leaves |-> Whole(0), leaf_radius |-> Whole(1), l_horizontal |-> Whole(2),
       l_vertical |-> Whole(2)] @@ GenOrientation,
      [leaf_radius |-> Whole(1), l_horizontal |-> Whole(2),
       l_vertical |-> Whole(2)] @@ GenOrientation }

GenRoundKwargs ==
    { [n_leaves |-> Whole(2), leaf_radius |-> Half, radius |-> Whole(2)]
            @@ GenOrientation,
      [n_leaves |-> Whole(1), leaf_radius |-> Half] @@ GenOrientation,
      [n_leaves |-> Whole(1)] @@ GenOrientation,
      [leaf_radius |-> Half] @@ GenOrientation }

GenKwargs(cls) == IF cls = "cuboid" THEN GenCuboidKwargs ELSE GenRoundKwargs

GenAttempts == {1, 2}

\* the generator starts: rng is created, n_attempts is popped from the
\* keyword arguments and the constructor of the parameter object is entered
InitGen ==
    /\ HeapIdle
    /\ PlaceIdle
    /\ \E cls \in Shapes, seed \in Seeds, avoid \in BOOLEAN,
          a \in GenAttempts, c \in BOOLEAN :
         /\ avoid => cls = "cuboid"
         /\ ~avoid => (a = 1 /\ c)
         /\ gcall = [shape |-> cls, avoid_overlap |-> avoid, seed |-> seed,
                     n_attempts |-> a, closed |-> c]
         /\ \E kw \in GenKwargs(cls) :
              /\ kwargs = kw
              /\ obj = attrs_init(cls, kw)
    /\ field = 1 /\ ppc = "update" /\ perr = None /\ params = None
    /\ gpc = "params" /\ rng = 0
    /\ gen_positions = None /\ gen_orientations = <<>> /\ theta = NoValue
    /\ gresult = None /\ gerr = None
    /\ MoreIdle

GenParamsRaised == gen_params_raised /\ UNCHANGED <<heapVars, moreVars>>

GenPositionsCall == gen_positions_call /\ UNCHANGED <<heapVars, moreVars>>

GenPositionStep == gen_position_step /\ UNCHANGED <<heapVars, moreVars>>

GenPlaceAttempt == gen_place_attempt /\ UNCHANGED <<heapVars, moreVars>>

GenPlaceExhausted == gen_place_exhausted /\ UNCHANGED <<heapVars, moreVars>>

GenPositionsReturn == gen_positions_return /\ UNCHANGED <<heapVars, moreVars>>

InverseBetaStep == inversebeta_step /\ UNCHANGED <<heapVars, moreVars>>

OrientationStep == orientation_step /\ UNCHANGED <<heapVars, moreVars>>

GenReturn == gen_return /\ UNCHANGED <<heapVars, moreVars>>

NextGen ==
    \/ UpdateStep \/ UpdateReturn
    \/ GenParamsRaised \/ GenPositionsCall
    \/ GenPositionStep \/ GenPlaceAttempt \/ GenPlaceExhausted \/ GenPositionsReturn
    \/ InverseBetaStep \/ OrientationStep
    \/ GenReturn

SpecGen == InitGen /\ [][NextGen]_vars

-----------------------------------------------------------------------------
(* The caller specification: generator calls made one after the other, in *)
(* any order, each with one of the calls below.                            *)

GenCall(cls, avoid, seed, a) ==
    [shape |-> cls, avoid_overlap |-> avoid, seed |-> seed,
     n_attempts |-> a, closed |-> TRUE]

CallerCalls ==
    { <<GenCall("cuboid", TRUE, 0, 2),
        [n_leaves |-> Whole(2), leaf_radius |-> Half, l_horizontal |-> Whole(4),
         l_vertical |-> Whole(2)] @@ GenOrientation>>,
      <<GenCall("cuboid", FALSE, 0, 1),
        [n_leaves |-> Whole(2), leaf_radius |-> Half, l_horizontal |-> Whole(4),
         l_vertical |-> Whole(2)] @@ GenOrientation>>,
      <<GenCall("cuboid", FALSE, 1, 1),
        [n_leaves |-> Whole(2), leaf_radius |-> Half, l_horizontal |-> Whole(4),
         l_vertical |-> Whole(2)] @@ GenOrientation>>,
      <<GenCall("cone", FALSE, 1, 1),
        [n_leaves |-> Whole(1), leaf_radius |-> Half] @@ GenOrientation>>,
      <<GenCall("cuboid", TRUE, 0, 1),
        [n_leaves |-> Whole(2), leaf_radius |-> Whole(1), l_horizontal |-> Whole(2),
         l_vertical |-> Whole(2)] @@ GenOrientation>>,
      <<GenCall("cuboid", FALSE, 0, 1),
        [leaf_radius |-> Whole(1), l_horizontal |-> Whole(2),
         l_vertical |-> Whole(2)] @@ GenOrientation>> }

InitGenCalls ==
    /\ HeapIdle
    /\ PlaceIdle
    /\ \E cl \in CallerCalls :
         /\ gcall = cl[1]
         /\ kwargs = cl[2]
         /\ obj = attrs_init(cl[1].shape, cl[2])
    /\ field = 1 /\ ppc = "update" /\ perr = None /\ params = None
    /\ gpc = "params" /\ rng = 0
    /\ gen_positions = None /\ gen_orientations = <<>> /\ theta = NoValue
    /\ gresult = None /\ gerr = None
    /\ history = {} /\ ncalls = 1
    /\ HomIdle /\ reads = <<>> /\ LaterIdle

GenNextCall ==
    /\ \E cl \in CallerCalls : gen_next_call(cl[1], cl[2])
    /\ UNCHANGED <<heapVars, homVars, reads, laterVars>>

NextGenCalls == NextGen \/ GenNextCall

SpecGenCalls == InitGenCalls /\ [][NextGenCalls]_vars

-----------------------------------------------------------------------------
(* DiscreteCanopy.homogeneous, and the specification of a caller that      *)
(* calls LeafCloud.cuboid and then DiscreteCanopy.homogeneous with the      *)
(* same keyword arguments.                                                  *)

\* the defaults of LeafCloud.cuboid
DefaultSeed == 12345
DefaultAttempts == 100000

\* the keyword arguments without the named ones
Without(kw, names) == [k \in DOMAIN kw \ names |-> kw[k]]

\* the keyword arguments the attrs-generated __init__ of a class does not have
unexpected(cls, kw) == DOMAIN kw \ {Fields(cls)[k] : k \in 1..Len(Fields(cls))}

\* LeafCloud.cuboid(seed=12345, avoid_overlap=False, **kwargs): the call a
\* set of keyword arguments makes, and what is left of them for the
\* parameter object once n_attempts is popped
cuboid_call(kw, closed) ==
    [shape |-> "cuboid",
     avoid_overlap |-> Get(kw, "avoid_overlap", FALSE),
     seed |-> Get(kw, "seed", DefaultSeed),
     n_attempts |-> Get(kw, "n_attempts", DefaultAttempts),
     closed |-> closed]
cuboid_kwargs(kw) == Without(kw, {"seed", "avoid_overlap", "n_attempts"})

\* f"{id}_leaf_cloud"
leaf_cloud_id(id) == id \o "_leaf_cloud"

\* **leaf_cloud_kwargs, id=leaf_cloud_id
with_id(kw, id) == [id |-> leaf_cloud_id(id)] @@ kw

\* homogeneous raises e
hom_raise(e) ==
    /\ hpc' = "raised" /\ herr' = e
    /\ UNCHANGED <<hcall, hsize, hresult>>

\* leaf_cloud_params = CuboidLeafCloudParams(**leaf_cloud_kwargs): __init__
\* takes the fields of the class and no other keyword
hom_params ==
    /\ hpc = "called"
    /\ IF unexpected("cuboid", hcall.kwargs) # {}
       THEN hom_raise("TypeError") /\ UNCHANGED <<paramVars, genVars, placeVars>>
       ELSE /\ kwargs' = hcall.kwargs
            /\ obj' = attrs_init("cuboid", hcall.kwargs)
            /\ field' = 1 /\ ppc' = "update" /\ perr' = None /\ params' = None
            /\ hpc' = "params"
            /\ UNCHANGED <<hcall, hsize, herr, hresult, genVars, placeVars>>
    /\ UNCHANGED <<heapVars, callerVars>>

\* the constructor of the parameter object raised: the exception propagates
hom_params_raised ==
    /\ hpc = "params" /\ ppc = "raised"
    /\ hom_raise("Exception")
    /\ UNCHANGED <<heapVars, callerVars, paramVars, genVars, placeVars>>

\* size is computed (m_as raises for a quantity that is not a length) and
\* LeafCloud.cuboid(**leaf_cloud_kwargs, id=leaf_cloud_id) is entered
hom_size ==
    /\ hpc = "params" /\ ppc = "constructed"
    /\ IF length_power(hcall.kwargs, "l_horizontal") # 1
       THEN hom_raise("DimensionalityError")
            /\ UNCHANGED <<paramVars, genVars, placeVars>>
       ELSE /\ hsize' = <<params.l_horizontal, params.l_horizontal,
                           params.l_vertical>>
            /\ hpc' = "cuboid"
            /\ gen_enter(cuboid_call(with_id(hcall.kwargs, hcall.id), hcall.closed),
                         cuboid_kwargs(with_id(hcall.kwargs, hcall.id)))
            /\ UNCHANGED <<hcall, herr, hresult>>
    /\ UNCHANGED <<heapVars, callerVars>>

\* LeafCloud.cuboid ended: its exception propagates, or the instanced
\* canopy element and the canopy are constructed and the canopy is returned
hom_return ==
    /\ hpc = "cuboid" /\ gpc \in {"returned", "raised"}
    /\ IF gpc = "raised"
       THEN hom_raise(gerr) /\ UNCHANGED heapVars
       ELSE /\ elements' = Append(elements,
                    [canopy_element |-> gresult,
                     instance_positions |-> << <<0, 0, 0>> >>])
            /\ canopies' = Append(canopies,
                    [id |-> hcall.id, size |-> hsize,
                     instanced_canopy_elements |-> <<Len(elements) + 1>>])
            /\ hresult' = Len(canopies) + 1
            /\ hpc' = "returned"
            /\ UNCHANGED <<clouds, last, returned, hcall, hsize, herr>>
    /\ UNCHANGED <<callerVars, paramVars, genVars, placeVars>>

\* the caller keeps what LeafCloud.cuboid returned and calls homogeneous
hom_call ==
    /\ hpc = "direct" /\ gpc \in {"returned", "raised"}
    /\ history' = IF gpc = "returned"
                  THEN history \cup {[call |-> gcall, kwargs |-> kwargs,
                                      result |-> gresult]}
                  ELSE history
    /\ ncalls' = ncalls + 1
    /\ hpc' = "called"
    /\ kwargs' = None /\ obj' = None /\ field' = 0 /\ ppc' = "idle"
    /\ perr' = None /\ params' = None
    /\ pargs' = None /\ pc' = "idle" /\ i_leaf' = 0 /\ j_attempt' = 0
    /\ positions' = <<>> /\ tree' = {} /\ presult' = None
    /\ gcall' = None /\ gpc' = "idle" /\ rng' = 0
    /\ gen_positions' = None /\ gen_orientations' = <<>> /\ theta' = NoValue
    /\ gresult' = None /\ gerr' = None
    /\ UNCHANGED <<hcall, hsize, herr, hresult, heapVars>>

\* the parameters of the calls: four sets that determine every field (one
\* of them without l_horizontal) and one that does not
HomParams ==
    { [n_leaves |-> Whole(2), leaf_radius |-> Half, l_horizontal |-> Whole(4),
       l_vertical |-> Whole(2)] @@ GenOrientation,
      [lai |-> Half, leaf_radius |-> Whole(1), l_horizontal |-> Whole(2),
       l_vertical |-> Whole(2)] @@ GenOrientation,
      [lai |-> Half, leaf_radius |-> Whole(1), l_horizontal |-> Whole(2),
       hdo |-> Whole(1), hvr |-> Whole(1)] @@ GenOrientation,
      [lai |-> Half, n_leaves |-> Whole(2), leaf_radius |-> Whole(1),
       l_vertical |-> Whole(2)] @@ GenOrientation,
      [leaf_radius |-> Whole(1), l_horizontal |-> Whole(2),
       l_vertical |-> Whole(2)] @@ GenOrientation }

\* the keyword arguments of LeafCloud.cuboid that are not parameters
HomExtras ==
    { [seed |-> 1],
      [avoid_overlap |-> TRUE, n_attempts |-> 2],
      [seed |-> 2, avoid_overlap |-> FALSE] }

HomKwargs == HomParams \cup {kw @@ e : kw \in HomParams, e \in HomExtras}

HomIds == {"homogeneous_discrete_canopy", "c"}

\* the caller is in LeafCloud.cuboid(**kw, id=f"{id}_leaf_cloud")
InitHomogeneous ==
    /\ HeapIdle
    /\ PlaceIdle
    /\ \E id \in HomIds, kw \in HomKwargs, c \in BOOLEAN :
         /\ hcall = [id |-> id, kwargs |-> kw, closed |-> c]
         /\ gcall = cuboid_call(with_id(kw, id), c)
         /\ kwargs = cuboid_kwargs(with_id(kw, id))
         /\ obj = attrs_init("cuboid", cuboid_kwargs(with_id(kw, id)))
    /\ field = 1 /\ ppc = "update" /\ perr = None /\ params = None
    /\ gpc = "params" /\ rng = 0
    /\ gen_positions = None /\ gen_orientations = <<>> /\ theta = NoValue
    /\ gresult = None /\ gerr = None
    /\ history = {} /\ ncalls = 1
    /\ hpc = "direct" /\ hsize = None /\ herr = None /\ hresult = 0
    /\ reads = <<>> /\ LaterIdle

HomogeneousCall == hom_call /\ UNCHANGED <<reads, laterVars>>

HomogeneousParams == hom_params /\ UNCHANGED <<reads, laterVars>>

HomogeneousParamsRaised == hom_params_raised /\ UNCHANGED <<reads, laterVars>>

HomogeneousSize == hom_size /\ UNCHANGED <<reads, laterVars>>

HomogeneousReturn == hom_return /\ UNCHANGED <<reads, laterVars>>

NextHomogeneous ==
    \/ NextGen
    \/ HomogeneousCall \/ HomogeneousParams \/ HomogeneousParamsRaised
    \/ HomogeneousSize \/ HomogeneousReturn

SpecHomogeneous == InitHomogeneous /\ [][NextHomogeneous]_vars

-----------------------------------------------------------------------------
(* DiscreteCanopy.leaf_cloud_from_files, with LeafCloud.from_file and      *)
(* InstancedCanopyElement.from_file, and the specification of one call.    *)

\* a token of a line is <<x>> when it is the literal of the number x, and
\* <<>> when it is not the literal of a number
is_float(token) == Len(token) = 1

\* float(x), for a token that is the literal of a number
float(token) == token[1]

\* the lines of a file that holds these rows of numbers
text(rows) == [k \in 1..Len(rows) |-> [j \in 1..Len(rows[k]) |-> <<rows[k][j]>>]]

\* the files of leaf_cloud_from_files, by name
Files ==
    [leaves_a |-> text(<< <<1, 0, 0, 1, 0, 0, 1>> >>),
     leaves_b |-> text(<< <<1, 1, 1, 2, 0, 0, 1>>, <<2, 3, 1, 2, 1, 0, 0>> >>),
     inst_p |-> text(<< <<0, 0, 0>> >>),
     inst_q |-> text(<< <<0, 0, 0>>, <<4, 0, 0>> >>),
     bad |-> text(<< <<0, 0, 0>>, <<4, 0>> >>)]

\* os.path.isfile(filename)
isfile(filename) == filename \in DOMAIN disk

\* [float(x) for x in line.split()]
values_of(line) == [j \in 1..Len(line) |-> float(line[j])]

\* values[lo:hi] of Python, the indices counted from 0
slice(values, lo, hi) ==
    SubSeq(values, lo + 1, IF hi < Len(values) THEN hi ELSE Len(values))

\* what the body of the loop of LeafCloud.from_file raises on a line
leaf_line_error(line) ==
    IF \E j \in 1..Len(line) : ~is_float(line[j]) THEN "ValueError"
    ELSE IF Len(line) = 0 THEN "IndexError"    \* values[0]
    ELSE None

\* the line (from 1) on which the loop stops with an exception, or 0
leaf_first_error(lines) ==
    IF \E k \in 1..Len(lines) : leaf_line_error(lines[k]) # None
    THEN CHOOSE k \in 1..Len(lines) :
            /\ leaf_line_error(lines[k]) # None
            /\ \A j \in 1..(k - 1) : leaf_line_error(lines[j]) = None
    ELSE 0

\* np.array(rows).shape: rows of one length give a 2-D array; rows of
\* different lengths give a 1-D array of objects, or ValueError at once in
\* the later versions of numpy
array_shape(rows) ==
    IF rows = <<>> THEN <<0>>
    ELSE IF \A k \in 1..Len(rows) : Len(rows[k]) = Len(rows[1])
    THEN <<Len(rows), Len(rows[1])>>
    ELSE <<Len(rows)>>

\* _positions_orientations_validator
positions_orientations_valid(rows) ==
    \/ Len(rows) = 0
    \/ (Len(array_shape(rows)) = 2 /\ array_shape(rows)[2] = 3)

\* the loop and the construction of LeafCloud.from_file (the radii of the
\* files of the model are positive)
LeafCloud_from_lines(lines, id) ==
    IF leaf_first_error(lines) # 0
    THEN [exc |-> leaf_line_error(lines[leaf_first_error(lines)])]
    ELSE LET values == [k \in 1..Len(lines) |-> values_of(lines[k])]
             radii_ == [k \in 1..Len(lines) |-> values[k][1]]
             positions_ == [k \in 1..Len(lines) |-> slice(values[k], 1, 4)]
             orientations_ == [k \in 1..Len(lines) |-> slice(values[k], 4, 7)]
         IN  IF ~positions_orientations_valid(positions_)
                \/ ~positions_orientations_valid(orientations_)
             THEN [exc |-> "ValueError"]
             ELSE [exc |-> None,
                   val |-> [id |-> id,
                            leaf_positions |-> positions_,
                            positions_ndim |-> Len(array_shape(positions_)),
                            leaf_orientations |-> orientations_,
                            leaf_radii |-> radii_]]

\* LeafCloud.from_file: the exception, or the leaf cloud read from the
\* file, one leaf per line: radius, position, orientation
LeafCloud_from_file(filename, id) ==
    IF filename = None THEN [exc |-> "ValueError"]
    ELSE IF ~isfile(filename) THEN [exc |-> "FileNotFoundError"]
    ELSE LeafCloud_from_lines(disk[filename], id)

\* np.array(line.split(), dtype=float) raises, or len(coords) != 3
instance_line_bad(line) ==
    \/ \E j \in 1..Len(line) : ~is_float(line[j])
    \/ Len(line) # 3

\* (mutant) i_line, the number of the line counted from 0
line_number_from_zero(i_line) == i_line

\* i_line + 1, the number the message names
line_number(i_line) == i_line + 1

\* the index i_line (from 0) of the line on which the loop raises, or -1
instance_first_bad(lines) ==
    IF \E k \in 1..Len(lines) : instance_line_bad(lines[k])
    THEN (CHOOSE k \in 1..Len(lines) :
            /\ instance_line_bad(lines[k])
            /\ \A j \in 1..(k - 1) : ~instance_line_bad(lines[j])) - 1
    ELSE -1

\* InstancedCanopyElement.from_file: the exception (with the number of the
\* line its message names), or the element with one instance position per
\* line of the file
InstancedCanopyElement_from_file(filename, canopy_element) ==
    IF filename = None THEN [exc |-> "ValueError"]
    ELSE IF ~isfile(filename) THEN [exc |-> "FileNotFoundError"]
    ELSE LET lines == disk[filename]
             i_line == instance_first_bad(lines)
         IN  IF i_line >= 0
             THEN [exc |-> "ValueError", line |-> line_number(i_line)]
             ELSE [exc |-> None,
                   val |-> [canopy_element |-> canopy_element,
                            instance_positions |->
                                [k \in 1..Len(lines) |-> values_of(lines[k])]]]

\* (mutant) a record without sub_id is accepted among two records
sub_id_required_over_two(n_dicts) == n_dicts > 2

\* if len(leaf_cloud_dicts) > 1
sub_id_required(n_dicts) == n_dicts > 1

\* the id of the leaf cloud of a record
record_leaf_cloud_id(id, sub_id) ==
    IF sub_id = None THEN id \o "_leaf_cloud"
    ELSE id \o "_" \o sub_id \o "_leaf_cloud"

\* the call raises e
from_raise(e) ==
    /\ fpc' = "raised" /\ ferr' = e
    /\ UNCHANGED <<fcall, i_dict, instanced_canopy_elements, fresult>>

\* the checks of the required arguments
from_files_check ==
    /\ fpc = "called"
    /\ IF fcall.size = None \/ fcall.leaf_cloud_dicts = None
       THEN from_raise("ValueError")
       ELSE /\ fpc' = "loop"
            /\ UNCHANGED <<fcall, i_dict, instanced_canopy_elements, ferr, fresult>>
    /\ UNCHANGED heapVars

\* one iteration of the loop over leaf_cloud_dicts
from_files_record ==
    /\ fpc = "loop"
    /\ i_dict < Len(fcall.leaf_cloud_dicts)
    /\ LET leaf_cloud_dict == fcall.leaf_cloud_dicts[i_dict + 1]
           sub_id == leaf_cloud_dict.sub_id
           cloud == LeafCloud_from_file(leaf_cloud_dict.leaf_cloud_filename,
                        record_leaf_cloud_id(fcall.id, sub_id))
       IN  IF sub_id = None /\ sub_id_required(Len(fcall.leaf_cloud_dicts))
           THEN from_raise("ValueError")
           ELSE IF cloud.exc # None THEN from_raise(cloud.exc)
           ELSE LET e == InstancedCanopyElement_from_file(
                            leaf_cloud_dict.instance_filename, cloud.val)
                IN  IF e.exc # None THEN from_raise(e.exc)
                    ELSE /\ instanced_canopy_elements' =
                                Append(instanced_canopy_elements, e.val)
                         /\ i_dict' = i_dict + 1
                         /\ UNCHANGED <<fcall, fpc, ferr, fresult>>
    /\ UNCHANGED heapVars

\* the loop is over: the canopy is constructed and returned
from_files_return ==
    /\ fpc = "loop"
    /\ i_dict >= Len(fcall.leaf_cloud_dicts)
    /\ elements' = elements \o instanced_canopy_elements
    /\ canopies' = Append(canopies,
            [id |-> fcall.id, size |-> fcall.size,
             instanced_canopy_elements |->
                [k \in 1..Len(instanced_canopy_elements) |-> Len(elements) + k]])
    /\ fresult' = Len(canopies) + 1
    /\ fpc' = "returned"
    /\ UNCHANGED <<clouds, last, returned>>
    /\ UNCHANGED <<fcall, i_dict, instanced_canopy_elements, ferr>>

\* the records of the calls
SubIds == {None, "x", "y"}
LeafCloudFilenames == {None, "leaves_a", "leaves_b", "missing"}
InstanceFilenames == {None, "inst_p", "inst_q", "bad"}

LeafCloudDicts ==
    [sub_id : SubIds, leaf_cloud_filename : LeafCloudFilenames,
     instance_filename : InstanceFilenames]

RECURSIVE SeqsUpTo(_, _)
SeqsUpTo(S, n) ==
    IF n = 0 THEN {<<>>}
    ELSE LET shorter == SeqsUpTo(S, n - 1)
         IN  shorter \cup {Append(q, x) : q \in shorter, x \in S}

InitFromFiles ==
    /\ HeapIdle /\ PlaceIdle /\ ParamsIdle /\ GenIdle
    /\ CallerIdle /\ HomIdle /\ reads = <<>> /\ KernelIdle
    /\ disk = Files /\ rcall = NoCall /\ rresult = NoCall
    /\ \/ \E ds \in SeqsUpTo(LeafCloudDicts, MaxRecords) :
            fcall = [id |-> "c", size |-> <<4, 4, 2>>, leaf_cloud_dicts |-> ds]
       \/ fcall = [id |-> "c", size |-> None, leaf_cloud_dicts |-> <<>>]
       \/ fcall = [id |-> "c", size |-> <<4, 4, 2>>, leaf_cloud_dicts |-> None]
    /\ fpc = "called" /\ i_dict = 0
    /\ instanced_canopy_elements = <<>> /\ ferr = None /\ fresult = 0

\* what a step of the call leaves alone
FromFilesFrame ==
    UNCHANGED <<placeVars, paramVars, genVars, callerVars, homVars, reads,
                kernelVars, readVars>>

FromFilesCheck == from_files_check /\ FromFilesFrame

FromFilesRecord == from_files_record /\ FromFilesFrame

FromFilesReturn == from_files_return /\ FromFilesFrame

NextFromFiles == FromFilesCheck \/ FromFilesRecord \/ FromFilesReturn

SpecFromFiles == InitFromFiles /\ [][NextFromFiles]_vars

-----------------------------------------------------------------------------
(* The file reading specification: one file of at most MaxLines lines, and *)
(* callers of LeafCloud.from_file and of InstancedCanopyElement.from_file.  *)

MaxLines == 2

\* the lines of the files: seven numbers, eight numbers, six numbers, a
\* blank line, seven tokens of which one is no number, three numbers (two
\* such lines), three tokens of which one is no number, two numbers
ReadLines ==
    { text(<< <<1, 0, 0, 1, 0, 0, 1>> >>)[1],
      text(<< <<1, 0, 0, 1, 0, 0, 1, 9>> >>)[1],
      text(<< <<1, 0, 0, 1, 0, 0>> >>)[1],
      <<>>,
      << <<1>>, <<0>>, <<0>>, <<>>, <<0>>, <<0>>, <<1>> >>,
      text(<< <<0, 0, 0>> >>)[1],
      text(<< <<4, 0, 2>> >>)[1],
      << <<1>>, <<>>, <<0>> >>,
      text(<< <<4, 0>> >>)[1] }

ReadFilenames == {None, "f", "missing"}

InitRead ==
    /\ HeapIdle /\ PlaceIdle /\ ParamsIdle /\ GenIdle
    /\ CallerIdle /\ HomIdle /\ reads = <<>> /\ FromIdle /\ KernelIdle
    /\ \E lines \in SeqsUpTo(ReadLines, MaxLines) : disk = [f |-> lines]
    /\ rcall = NoCall /\ rresult = NoCall

ReadFrame ==
    UNCHANGED <<heapVars, placeVars, paramVars, genVars, callerVars, homVars,
                reads, fromVars, kernelVars, disk>>

\* LeafCloud.from_file(filename)
LeafCloudFromFile ==
    /\ \E filename \in ReadFilenames :
         /\ rcall' = [op |-> "LeafCloud.from_file", filename |-> filename]
         /\ rresult' = LeafCloud_from_file(filename, "leaf_cloud")
    /\ ReadFrame

\* InstancedCanopyElement.from_file(filename): canopy_element is None and
\* becomes LeafCloud()
InstancedCanopyElementFromFile ==
    /\ \E filename \in ReadFilenames :
         /\ rcall' = [op |-> "InstancedCanopyElement.from_file",
                      filename |-> filename]
         /\ rresult' = InstancedCanopyElement_from_file(filename, DefaultLeafCloud)
    /\ ReadFrame

NextRead == LeafCloudFromFile \/ InstancedCanopyElementFromFile

SpecRead == InitRead /\ [][NextRead]_vars

-----------------------------------------------------------------------------
(* from_dict of LeafCloud, InstancedCanopyElement and DiscreteCanopy: the  *)
(* dispatch on the "construct" key. The outcome names the constructor that *)
(* is called and the keyword arguments it is called with (the dictionaries *)
(* of the model hold no unit field, so that pinttr.interpret_units returns *)
(* a copy).                                                                *)

\* d.pop(key, default): the value
pop_value(d, key, default) == Get(d, key, default)

\* d.pop(key, default): what is left of d
pop_rest(d, key) == Without(d, {key})

\* return cls.<constructor>(**d_copy)
dispatch(constructor, d_copy) ==
    [exc |-> None, calls |-> constructor, kwargs |-> d_copy]

\* raise ValueError(f"parameter 'construct': unsupported value ...")
unsupported_construct == [exc |-> "ValueError"]

\* LeafCloud.from_dict
LeafCloud_from_dict(d) ==
    LET construct == pop_value(d, "construct", None)
        d_copy == pop_rest(d, "construct")
    IN  IF construct \in {"cuboid", "sphere", "cylinder", "cone", "from_file"}
        THEN dispatch(construct, d_copy)
        ELSE IF construct = None THEN dispatch("__init__", d_copy)
        ELSE unsupported_construct

\* InstancedCanopyElement.from_dict
InstancedCanopyElement_from_dict(d) ==
    LET construct == pop_value(d, "construct", None)
        d_copy == pop_rest(d, "construct")
    IN  IF construct = "from_file" THEN dispatch(construct, d_copy)
        ELSE IF construct = None THEN dispatch("__init__", d_copy)
        ELSE unsupported_construct

\* DiscreteCanopy.from_dict: the padding is popped before the dispatch, and
\* what the constructor returns is padded: return result.padded(padding)
DiscreteCanopy_from_dict(d) ==
    LET padding == pop_value(d, "padding", 0)
        construct == pop_value(pop_rest(d, "padding"), "construct", None)
        d_copy == pop_rest(pop_rest(d, "padding"), "construct")
    IN  IF construct \in {"homogeneous", "leaf_cloud_from_files"}
        THEN dispatch(construct, d_copy) @@ [padded |-> padding]
        ELSE IF construct = None
        THEN dispatch("__init__", d_copy) @@ [padded |-> padding]
        ELSE unsupported_construct

\* the dictionaries of the callers: the "construct" key is absent, None, the
\* name of a constructor of one of the classes, or another string; the keys
\* "id" and "padding" are present or not
Constructs ==
    {None, "cuboid", "sphere", "cylinder", "cone", "from_file", "homogeneous",
     "leaf_cloud_from_files", "__init__", "file"}

FromDictInputs ==
    { c @@ i @@ q :
        c \in {<<>>} \cup {[construct |-> v] : v \in Constructs},
        i \in {<<>>, [id |-> "a"]},
        q \in {<<>>, [padding |-> 0], [padding |-> 1]} }

InitFromDict ==
    /\ HeapIdle /\ PlaceIdle /\ ParamsIdle /\ GenIdle
    /\ CallerIdle /\ HomIdle /\ reads = <<>> /\ FromIdle /\ KernelIdle
    /\ ReadIdle

LeafCloudFromDict ==
    /\ \E d \in FromDictInputs :
         /\ rcall' = [op |-> "LeafCloud.from_dict", d |-> d]
         /\ rresult' = LeafCloud_from_dict(d)
    /\ ReadFrame

InstancedCanopyElementFromDict ==
    /\ \E d \in FromDictInputs :
         /\ rcall' = [op |-> "InstancedCanopyElement.from_dict", d |-> d]
         /\ rresult' = InstancedCanopyElement_from_dict(d)
    /\ ReadFrame

DiscreteCanopyFromDict ==
    /\ \E d \in FromDictInputs :
         /\ rcall' = [op |-> "DiscreteCanopy.from_dict", d |-> d]
         /\ rresult' = DiscreteCanopy_from_dict(d)
    /\ ReadFrame

NextFromDict ==
    LeafCloudFromDict \/ InstancedCanopyElementFromDict \/ DiscreteCanopyFromDict

SpecFromDict == InitFromDict /\ [][NextFromDict]_vars

-----------------------------------------------------------------------------
(* The kernel dictionaries: LeafCloud.bsdfs and shapes, AbstractTree.bsdfs, *)
(* InstancedCanopyElement.shapes and instances. A dictionary is a function *)
(* from its keys; a transform is held as the call that builds it.          *)

\* d[k] = v
dict_set(d, k, v) == [x \in DOMAIN d \cup {k} |-> IF x = k THEN v ELSE d[x]]

\* {**d, **e}
dict_merge(d, e) ==
    [x \in DOMAIN d \cup DOMAIN e |-> IF x \in DOMAIN e THEN e[x] ELSE d[x]]

\* the magnitude of a length held in metres in the kernel unit, of which
\* kernel_length make one metre
m_as(v, kernel_length) == v * kernel_length
m_as3(pos, kernel_length) == [k \in 1..3 |-> m_as(pos[k], kernel_length)]

\* LeafCloud.bsdfs
LeafCloud_bsdfs(self) ==
    dict_set(<<>>, "bsdf_" \o self.id,
             [type |-> "bilambertian",
              reflectance |-> self.leaf_reflectance,
              transmittance |-> self.leaf_transmittance])

\* LeafCloud.shapes: the dictionary after the leaves i_leaf, ... are added
RECURSIVE LeafCloud_shapes_from(_, _, _, _)
LeafCloud_shapes_from(self, ctx, n, shapes_dict) ==
    IF n >= Len(self.leaf_positions) THEN shapes_dict
    ELSE LET bsdf == IF ctx.ref
                     THEN [type |-> "ref", id |-> "bsdf_" \o self.id]
                     ELSE LeafCloud_bsdfs(self)["bsdf_" \o self.id]
             position == m_as3(self.leaf_positions[n + 1], ctx.kernel_length)
             normal == self.leaf_orientations[n + 1]
             radius == m_as(self.leaf_radii[n + 1], ctx.kernel_length)
         IN  LeafCloud_shapes_from(self, ctx, n + 1,
                dict_set(shapes_dict, self.id \o "_leaf_" \o ToString(n),
                         [type |-> "disk",
                          bsdf |-> bsdf,
                          to_world |-> [origin |-> position,
                                        target |-> Add3(position, normal),
                                        scale |-> radius]]))

LeafCloud_shapes(self, ctx) == LeafCloud_shapes_from(self, ctx, 0, <<>>)

\* AbstractTree.bsdfs: the entry of the trunk is set in the dictionary of
\* the leaf cloud
AbstractTree_bsdfs(self) ==
    dict_set(LeafCloud_bsdfs(self.leaf_cloud), "bsdf_" \o self.id,
             [type |-> "diffuse", reflectance |-> self.trunk_reflectance])

\* InstancedCanopyElement.shapes
InstancedCanopyElement_shapes(self, ctx) ==
    dict_set(<<>>, self.canopy_element.id,
             dict_merge(dict_set(<<>>, "type", "shapegroup"),
                        LeafCloud_shapes(self.canopy_element, ctx)))

\* (mutant) the key of an instance does not hold its index
instance_key_shared(id, i) == id \o "_instance"

\* f"{self.canopy_element.id}_instance_{i}"
instance_key(id, i) == id \o "_instance_" \o ToString(i)

\* InstancedCanopyElement.instances: the comprehension from position n on
RECURSIVE instances_from(_, _, _, _)
instances_from(self, ctx, n, d) ==
    IF n >= Len(self.instance_positions) THEN d
    ELSE instances_from(self, ctx, n + 1,
            dict_set(d, instance_key(self.canopy_element.id, n),
                     [type |-> "instance",
                      group |-> [type |-> "ref", id |-> self.canopy_element.id],
                      to_world |-> [translate |->
                            m_as3(self.instance_positions[n + 1],
                                  ctx.kernel_length)]]))

InstancedCanopyElement_instances(self, ctx) == instances_from(self, ctx, 0, <<>>)

\* the calls: each returns its dictionary and changes no object
kernel_call(op, ctx, result) ==
    /\ kcall' = [op |-> op, ctx |-> ctx]
    /\ kresult' = result
    /\ kerr' = None
    /\ UNCHANGED <<heapVars, trees>>

element_shapes(e, ctx) ==
    kernel_call("shapes", ctx, InstancedCanopyElement_shapes(elements[e], ctx))

element_instances(e, ctx) ==
    kernel_call("instances", ctx, InstancedCanopyElement_instances(elements[e], ctx))

\* AbstractTree.bsdfs; self.leaf_cloud.bsdfs raises when leaf_cloud is None
tree_bsdfs(t, ctx) ==
    IF DOMAIN trees[t].leaf_cloud = {}
    THEN /\ kcall' = [op |-> "bsdfs", ctx |-> ctx]
         /\ kresult' = <<>>
         /\ kerr' = "AttributeError"
         /\ UNCHANGED <<heapVars, trees>>
    ELSE kernel_call("bsdfs", ctx, AbstractTree_bsdfs(trees[t]))

\* the length of v kernel units in metres
from_kernel(v, kernel_length) == v \div kernel_length

\* AbstractTree.shapes: the exception of translated, or the dictionary of
\* the shapes of the translated leaf cloud with the two shapes of the trunk
AbstractTree_shapes(self, ctx) ==
    LET kernel_height == m_as(self.trunk_height, ctx.kernel_length)
        kernel_radius == RMul(self.trunk_radius, Whole(ctx.kernel_length))
        moved == translated_outcome(self.leaf_cloud,
                    [ndim |-> 1,
                     data |-> <<0, 0, from_kernel(kernel_height, ctx.kernel_length)>>])
        leaf_cloud == [self.leaf_cloud EXCEPT !.leaf_positions = moved.value]
        bsdf == IF ctx.ref
                THEN [type |-> "ref", id |-> "bsdf_" \o self.id]
                ELSE AbstractTree_bsdfs(self)["bsdf_" \o self.id]
    IN  IF moved.raised # None THEN [exc |-> moved.raised]
        ELSE [exc |-> None,
              val |-> dict_set(
                        dict_set(LeafCloud_shapes(leaf_cloud, ctx),
                                 "trunk_cyl_" \o self.id,
                                 [type |-> "cylinder",
                                  bsdf |-> bsdf,
                                  radius |-> kernel_radius,
                                  p0 |-> <<Whole(0), Whole(0), Frac(-1, 10)>>,
                                  p1 |-> <<Whole(0), Whole(0), Whole(kernel_height)>>]),
                        "trunk_cap_" \o self.id,
                        [type |-> "disk",
                         bsdf |-> bsdf,
                         to_world |-> [scale |-> kernel_radius,
                                       translate |-> <<Whole(0), Whole(0),
                                                       Frac(kernel_height, 2)>>]])]

\* AbstractTree.shapes on a tree of the heap
tree_shapes(t, ctx) ==
    LET out == AbstractTree_shapes(trees[t], ctx)
    IN  /\ kcall' = [op |-> "tree_shapes", ctx |-> ctx]
        /\ kresult' = IF out.exc = None THEN out.val ELSE <<>>
        /\ kerr' = out.exc
        /\ UNCHANGED <<heapVars, trees>>

\* DiscreteCanopy.shapes: result = {**result, **element.shapes(ctx=ctx)}
\* for the elements from the n-th on
RECURSIVE DiscreteCanopy_shapes_from(_, _, _, _)
DiscreteCanopy_shapes_from(es, ctx, n, result) ==
    IF n > Len(es) THEN result
    ELSE DiscreteCanopy_shapes_from(es, ctx, n + 1,
            dict_merge(result, InstancedCanopyElement_shapes(es[n], ctx)))

DiscreteCanopy_shapes(es, ctx) == DiscreteCanopy_shapes_from(es, ctx, 1, <<>>)

\* DiscreteCanopy.instances: result = {**result, **element.instances()}
RECURSIVE DiscreteCanopy_instances_from(_, _, _, _)
DiscreteCanopy_instances_from(es, ctx, n, result) ==
    IF n > Len(es) THEN result
    ELSE DiscreteCanopy_instances_from(es, ctx, n + 1,
            dict_merge(result, InstancedCanopyElement_instances(es[n], ctx)))

DiscreteCanopy_instances(es, ctx) == DiscreteCanopy_instances_from(es, ctx, 1, <<>>)

\* the instanced canopy elements of canopy c
elements_of(c) ==
    [k \in 1..Len(canopies[c].instanced_canopy_elements) |->
        elements[canopies[c].instanced_canopy_elements[k]]]

canopy_shapes(c, ctx) ==
    kernel_call("canopy_shapes", ctx, DiscreteCanopy_shapes(elements_of(c), ctx))

canopy_instances(c, ctx) ==
    kernel_call("canopy_instances", ctx,
                DiscreteCanopy_instances(elements_of(c), ctx))

\* the objects of the model
KernelIds == {"leaf_cloud", "tree"}

KernelPoints == {<<0, 0, 0>>, <<4, 0, 0>>, <<0, 4, 2>>}

\* a leaf cloud of n leaves
KernelLeafCloud(id, n) ==
    [id |-> id,
     leaf_positions |-> [k \in 1..n |-> <<k, 0, 1>>],
     positions_ndim |-> 2,
     leaf_orientations |-> [k \in 1..n |-> <<0, 0, 1>>],
     leaf_radii |-> [k \in 1..n |-> k],
     leaf_reflectance |-> Half,
     leaf_transmittance |-> Frac(1, 4)]

KernelContexts == [ref : BOOLEAN, kernel_length : {1, 1000}]

\* one instanced canopy element of a leaf cloud and one abstract tree
InitKernel ==
    /\ PlaceIdle /\ ParamsIdle /\ GenIdle
    /\ CallerIdle /\ HomIdle /\ reads = <<>> /\ FromIdle /\ ReadIdle
    /\ canopies = <<>> /\ clouds = <<>> /\ last = None /\ returned = {}
    /\ \E id \in KernelIds, n \in 0..MaxLeaves,
          ps \in SeqsUpTo(KernelPoints, MaxInstances) :
         elements = << [canopy_element |-> KernelLeafCloud(id, n),
                        instance_positions |-> ps] >>
    /\ \E id \in KernelIds, lid \in KernelIds \cup {None} :
         trees = << [id |-> id,
                     leaf_cloud |-> IF lid = None THEN NoValue
                                    ELSE KernelLeafCloud(lid, 1),
                     trunk_height |-> 1,
                     trunk_radius |-> Frac(1, 10),
                     trunk_reflectance |-> Half] >>
    /\ kcall = NoCall /\ kresult = <<>> /\ kerr = None

KernelFrame ==
    UNCHANGED <<placeVars, paramVars, genVars, callerVars, homVars, reads,
                fromVars, readVars>>

ElementShapes ==
    /\ \E e \in 1..Len(elements), ctx \in KernelContexts : element_shapes(e, ctx)
    /\ KernelFrame

ElementInstances ==
    /\ \E e \in 1..Len(elements), ctx \in KernelContexts : element_instances(e, ctx)
    /\ KernelFrame

TreeBsdfs ==
    /\ \E t \in 1..Len(trees), ctx \in KernelContexts : tree_bsdfs(t, ctx)
    /\ KernelFrame

NextKernel == ElementShapes \/ ElementInstances \/ TreeBsdfs

SpecKernel == InitKernel /\ [][NextKernel]_vars

-----------------------------------------------------------------------------
(* The canopy kernel specification: one call of leaf_cloud_from_files, and *)
(* the callers of shapes and instances of the canopy it returned (in the   *)
(* contexts with ctx.ref set, the ones kernel_dict accepts).               *)

CanopyContexts == {ctx \in KernelContexts : ctx.ref}

CanopyFrame ==
    UNCHANGED <<placeVars, paramVars, genVars, callerVars, homVars, reads,
                fromVars, readVars>>

CanopyShapes ==
    /\ fpc = "returned"
    /\ \E ctx \in CanopyContexts : canopy_shapes(fresult, ctx)
    /\ CanopyFrame

CanopyInstances ==
    /\ fpc = "returned"
    /\ \E ctx \in CanopyContexts : canopy_instances(fresult, ctx)
    /\ CanopyFrame

NextCanopyKernel ==
    \/ FromFilesCheck \/ FromFilesRecord \/ FromFilesReturn
    \/ CanopyShapes \/ CanopyInstances

SpecCanopyKernel == InitFromFiles /\ [][NextCanopyKernel]_vars

-----------------------------------------------------------------------------
(* The tree specification: one abstract tree whose leaf cloud has zero to  *)
(* MaxLeaves leaves, or is the leaf cloud the default fields give, and the *)
(* callers of its shapes and bsdfs.                                        *)

\* LeafCloud(id=id): the positions are the array of an empty list
KernelDefaultLeafCloud(id) == [KernelLeafCloud(id, 0) EXCEPT !.positions_ndim = 1]

TreeLeafClouds ==
    {KernelLeafCloud(id, n) : id \in KernelIds, n \in 0..MaxLeaves}
        \cup {KernelDefaultLeafCloud(id) : id \in KernelIds}

InitTree ==
    /\ HeapIdle /\ PlaceIdle /\ ParamsIdle /\ GenIdle
    /\ CallerIdle /\ HomIdle /\ reads = <<>> /\ FromIdle /\ ReadIdle
    /\ \E id \in KernelIds, cloud \in TreeLeafClouds, h \in {1, 2} :
         trees = << [id |-> id,
                     leaf_cloud |-> cloud,
                     trunk_height |-> h,
                     trunk_radius |-> Frac(1, 10),
                     trunk_reflectance |-> Half] >>
    /\ kcall = NoCall /\ kresult = <<>> /\ kerr = None

TreeShapes ==
    /\ \E t \in 1..Len(trees), ctx \in KernelContexts : tree_shapes(t, ctx)
    /\ KernelFrame

NextTree == TreeShapes \/ TreeBsdfs

SpecTree == InitTree /\ [][NextTree]_vars

-----------------------------------------------------------------------------
(* Properties of padded and translated (Spec, SpecAssign).                 *)

\* the step is a padded call that returned a canopy
PaddedReturned == last'.op = "padded" /\ last'.raised = None

\* the instance positions of the j-th element of canopy c in the heap es
Positions(cs, es, c, j) == es[cs[c].instanced_canopy_elements[j]].instance_positions

C9_PaddedIndependent ==
    [][\A t \in returned :
         (last'.op \in {"assign_size", "assign_instance_positions"}
            /\ last'.recv = t[3]) =>
           /\ canopies'[t[1]] = canopies[t[1]]
           /\ \A j \in 1..Len(canopies[t[1]].instanced_canopy_elements) :
                Positions(canopies', elements', t[1], j)
                  = Positions(canopies, elements, t[1], j)]_vars

\* C10: neither translated nor padded mutates its receiver (nor any other
\* object): every call, also one that raises, leaves the content of every
\* canopy, element and leaf cloud of the heap as it was.
C10_NoMutation ==
    [][(last'.op \in {"padded", "translated"}) =>
        /\ \A c \in 1..Len(canopies) : canopies'[c] = canopies[c]
        /\ \A e \in 1..Len(elements) : elements'[e] = elements[e]
        /\ \A l \in 1..Len(clouds) : clouds'[l] = clouds[l]]_vars

\* a translated call has returned a new leaf cloud, after a padded call that
\* returned a new canopy of a receiver with instance positions
C10_Witness ==
    /\ last.op = "translated" /\ last.raised = None
    /\ Len(clouds) = 2
    /\ clouds[2].leaf_positions # clouds[1].leaf_positions
    /\ Len(canopies) = 2
    /\ Len(elements[1].instance_positions) = 2

\* C14: padded with a padding below zero raises the invalid-padding error
\* for every canopy: the call returns no canopy and leaves the receiver (and
\* every other object) as it was.
C14_NegativePaddingRaises ==
    [][(last'.op = "padded" /\ last'.arg < 0) =>
          /\ last'.raised = "ValueError"
          /\ last'.ret = 0
          /\ canopies' = canopies
          /\ elements' = elements
          /\ clouds' = clouds]_vars

\* padded was called with a negative padding on a canopy padded returned
C14_Witness ==
    /\ last.op = "padded" /\ last.arg < 0
    /\ last.raised = "ValueError"
    /\ last.recv = 2

-----------------------------------------------------------------------------
(* Properties of the placer (SpecPlace).                                   *)

\* the boxes of two leaf positions inflated by r on the three axes overlap:
\* on every axis the centres are less than 2 r apart
BoxesOverlap(p, q, r) ==
    \A k \in 1..3 : RLt(RAbs(RSub(p[k], q[k])), RMul(Whole(2), r))

NoTwoOverlap(ps, r) ==
    \A a \in 1..Len(ps), b \in 1..Len(ps) : a < b => ~BoxesOverlap(ps[a], ps[b], r)

\* C3: with collision avoidance, after every accepted placement and in the
\* array a successful call returns, the boxes of no two placed leaves,
\* inflated by leaf_radius on the three axes, overlap.
C3_NoOverlap ==
    /\ NoTwoOverlap(positions, pargs.leaf_radius)
    /\ pc = "returned" => /\ presult # None
                          /\ Len(presult) = pargs.n_leaves
                          /\ NoTwoOverlap(presult, pargs.leaf_radius)

\* the call has returned two leaves, the second one placed after a candidate
\* was possible that overlaps the first: the two boxes touch on the x axis
C3_Witness ==
    /\ pc = "returned"
    /\ Len(presult) = 2
    /\ RAbs(RSub(presult[1][1], presult[2][1])) = RMul(Whole(2), pargs.leaf_radius)
    /\ presult[1][2] = presult[2][2]
    /\ presult[1][3] = presult[2][3]

\* C4: when all n_attempts candidates of a leaf overlapped a placed box, the
\* call fails: it raises, returns no position array, makes no attempt beyond
\* the budget for the leaf and tries no later leaf.
C4_ExhaustionRaises ==
    [][/\ (pc = "placing" /\ i_leaf < pargs.n_leaves
                /\ j_attempt >= pargs.n_attempts) =>
            /\ pc' = "raised"
            /\ presult' = None
            /\ i_leaf' = i_leaf /\ j_attempt' = j_attempt
            /\ positions' = positions /\ tree' = tree
       /\ j_attempt' <= pargs.n_attempts
       /\ pc = "raised" => UNCHANGED placeVars]_vars

\* the call has raised on its second leaf after n_attempts = 2 candidates
C4_Witness ==
    /\ pc = "raised"
    /\ pargs.n_attempts = 2
    /\ i_leaf = 1 /\ j_attempt = 2
    /\ Len(positions) = 1
    /\ presult = None

-----------------------------------------------------------------------------
(* Properties of the parameter objects (SpecParams).                       *)

\* the numeric fields the construction starts with: supplied or defaulted
Supplied ==
    LET o == attrs_init(obj.cls, kwargs)
    IN  {f \in DOMAIN o \ {"cls", "id"} : o[f] # NoValue}

\* the dependency relations of the cuboid parameters: <<field, computed from>>
Relations ==
    { <<"n_leaves", {"lai", "l_horizontal", "leaf_radius"}>>,
      <<"lai", {"leaf_radius", "l_horizontal", "n_leaves"}>>,
      <<"leaf_radius", {"lai", "n_leaves", "l_horizontal"}>>,
      <<"l_horizontal", {"leaf_radius", "n_leaves", "lai"}>>,
      <<"l_vertical", {"lai", "hdo", "leaf_radius", "hvr"}>> }

RECURSIVE Closure(_)
Closure(S) ==
    LET T == S \cup {q[1] : q \in {q \in Relations : q[2] \subseteq S}}
    IN  IF T = S THEN S ELSE Closure(T)

\* the fields that are supplied or computable through the relations
Computable == IF obj.cls = "cuboid" THEN Closure(Supplied) ELSE Supplied

\* the parameters the generator of the shape needs
Required ==
    {"n_leaves", "leaf_radius"}
    \cup (CASE obj.cls = "cuboid" -> {"l_horizontal", "l_vertical"}
            [] obj.cls = "sphere" -> {"radius"}
            [] OTHER -> {"radius", "l_vertical"})

UnderSpecified == \E f \in Required : f \notin Computable

Finished == ppc \in {"constructed", "raised"}

\* C6: for every shape, when a parameter the generator requires is neither
\* supplied nor computable from the supplied ones, the construction ends by
\* raising the under-specification error, the error names a field that
\* cannot be resolved, and no object is returned.
C6_UnderSpecifiedRaises ==
    (Finished /\ UnderSpecified) =>
        /\ ppc = "raised"
        /\ perr.field \notin Computable
        /\ params = None

\* the part of C6 that holds: the cuboid parameter object
CuboidUnderSpecifiedRaises ==
    (Finished /\ obj.cls = "cuboid" /\ UnderSpecified) =>
        /\ ppc = "raised"
        /\ perr.field \notin Computable
        /\ params = None

\* a sphere parameter object was returned without a leaf count
SphereUnderSpecifiedReturned ==
    /\ ppc = "constructed" /\ params.cls = "sphere"
    /\ params.n_leaves = NoValue

\* the keyword arguments supply exactly the fields fs of the four
\* parameters n_leaves, lai, leaf_radius, l_horizontal
SuppliesOf4(fs) ==
    \A f \in {"n_leaves", "lai", "leaf_radius", "l_horizontal"} :
        (kwargs[f] # NoValue) <=> (f \in fs)

\* n_leaves = LAI * (L_h / r_leaf)^2 / pi, without the division and with
\* lai in units of pi: n_leaves * r_leaf^2 = lai * L_h^2
InverseRelation(o) ==
    RMul(o.n_leaves, RSq(o.leaf_radius)) = RMul(o.lai, RSq(o.l_horizontal))

\* C7: a cuboid parameter object whose leaf_radius was derived from lai,
\* n_leaves and l_horizontal, or whose l_horizontal was derived from lai,
\* n_leaves and leaf_radius, satisfies n_leaves = LAI * (L_h / r_leaf)^2 / pi.
C7_DerivedInverse ==
    (/\ ppc = "constructed" /\ obj.cls = "cuboid"
     /\ \/ SuppliesOf4({"lai", "n_leaves", "l_horizontal"})
        \/ SuppliesOf4({"lai", "n_leaves", "leaf_radius"}))
    => InverseRelation(params)

\* the part of C7 that holds: the derived leaf_radius
LeafRadiusDerivedInverse ==
    (/\ ppc = "constructed" /\ obj.cls = "cuboid"
     /\ SuppliesOf4({"lai", "n_leaves", "l_horizontal"}))
    => InverseRelation(params)

\* the values an original lai is drawn from
OriginalLais == {Frac(1, 4), Whole(1), Whole(4), Whole(16)}

SuppliedParameters ==
    Supplied \cap {"n_leaves", "leaf_radius", "l_horizontal", "l_vertical",
                   "lai", "hdo", "hvr"}

\* the three parameter sets the class documents
DocumentedSets ==
    { {"n_leaves", "leaf_radius", "l_horizontal", "l_vertical"},
      {"lai", "leaf_radius", "l_horizontal", "l_vertical"},
      {"lai", "leaf_radius", "l_horizontal", "hdo", "hvr"} }

\* C16: each of the three documented cuboid parameter sets is sufficient:
\* the construction of the parameter object from exactly that set raises no
\* error and leaves n_leaves, lai, leaf_radius, l_horizontal and l_vertical
\* with defined values.
C16_DocumentedSetsSufficient ==
    (Finished /\ obj.cls = "cuboid" /\ SuppliedParameters \in DocumentedSets) =>
        /\ ppc = "constructed"
        /\ \A f \in {"n_leaves", "lai", "leaf_radius", "l_horizontal", "l_vertical"} :
              params[f] # NoValue

\* an object was built from the third set: n_leaves and l_vertical derived
C16_Witness ==
    /\ ppc = "constructed" /\ obj.cls = "cuboid"
    /\ SuppliedParameters = {"lai", "leaf_radius", "l_horizontal", "hdo", "hvr"}
    /\ params.n_leaves = Whole(4)
    /\ params.l_vertical # NoValue

\* objects were built from the first and from the second set
FirstSetBuilt ==
    /\ ppc = "constructed" /\ obj.cls = "cuboid"
    /\ SuppliedParameters = {"n_leaves", "leaf_radius", "l_horizontal", "l_vertical"}
SecondSetBuilt ==
    /\ ppc = "constructed" /\ obj.cls = "cuboid"
    /\ SuppliedParameters = {"lai", "leaf_radius", "l_horizontal", "l_vertical"}

-----------------------------------------------------------------------------
(* Properties of the reads of a parameter object (SpecReads).              *)

\* the keyword arguments supply the four quantities of the leaf area
\* relation, and the vertical extent or what it is derived from
OverSpecified ==
    /\ obj.cls = "cuboid"
    /\ {"n_leaves", "leaf_radius", "l_horizontal", "lai"} \subseteq Supplied
    /\ \/ "l_vertical" \in Supplied
       \/ {"hdo", "hvr"} \subseteq Supplied

\* C17: after construction, every read of a field returns the same value,
\* the one the object holds (derived values are cached), and a supplied
\* field reads back as supplied, also when the fields are over-specified
\* and inconsistent: such a set is accepted without error.
C17_ReadsStable ==
    /\ \A i \in 1..Len(reads) :
         /\ reads[i].exc = None
         /\ reads[i].val = params[reads[i].field]
         /\ kwargs[reads[i].field] # NoValue =>
                reads[i].val = kwargs[reads[i].field]
         /\ \A j \in 1..Len(reads) :
              reads[j].field = reads[i].field => reads[j].val = reads[i].val
    /\ (Finished /\ OverSpecified) => ppc = "constructed"

\* lai was read twice from an object built with n_leaves = 1,
\* leaf_radius = 1, l_horizontal = 1 and the inconsistent lai = 4 (pi)
C17_Witness ==
    /\ Len(reads) = 2
    /\ reads[1].field = "lai" /\ reads[2].field = "lai"
    /\ OverSpecified
    /\ kwargs.n_leaves = Whole(1) /\ kwargs.leaf_radius = Whole(1)
    /\ kwargs.l_horizontal = Whole(1) /\ kwargs.lai = Whole(4)
    /\ reads[2].val = Whole(4)

\* a derived field was read twice
DerivedReadTwice ==
    /\ Len(reads) = 2 /\ obj.cls = "cuboid"
    /\ reads[1].field = "n_leaves" /\ reads[2].field = "n_leaves"
    /\ "n_leaves" \notin Supplied
    /\ reads[2].val = Whole(4)

-----------------------------------------------------------------------------
(* Properties of the generators (SpecGen).                                 *)

\* the call is over
GenFinished == gpc \in {"returned", "raised"}

\* the leaf cloud has n positions, n orientations and n radii
Counts(cloud, n) ==
    /\ Len(cloud.leaf_positions) = n
    /\ Len(cloud.leaf_orientations) = n
    /\ Len(cloud.leaf_radii) = n

\* C5: for each of the generators (cuboid with and without collision
\* avoidance, sphere, cylinder, cone) and every sufficient parameter set,
\* the call, unless the placer gave up on a leaf, returns a leaf cloud whose
\* numbers of positions, orientations and radii all equal the requested or
\* resolved n_leaves.
C5_CountInvariant ==
    (GenFinished /\ ~UnderSpecified /\ gerr # "RuntimeError") =>
        /\ gpc = "returned"
        /\ Counts(gresult, params.n_leaves[1])

\* the part of C5 that holds: a leaf cloud that is returned has n_leaves
\* positions, orientations and radii
ReturnedCountsEqual ==
    gpc = "returned" => Counts(gresult, params.n_leaves[1])

\* the sphere generator returns no leaf cloud
SphereNeverReturns == (gcall.shape = "sphere") => gpc # "returned"

\* every other generator returned a cloud of two leaves
TwoLeavesReturned(fn) ==
    /\ gpc = "returned" /\ position_function(gcall) = fn
    /\ Counts(gresult, 2)

\* a position lies in the cuboid of extents l_horizontal and l_vertical
InCuboid(pos, l_horizontal, l_vertical) ==
    /\ RLe(RAbs(pos[1]), RMul(Half, l_horizontal))
    /\ RLe(RAbs(pos[2]), RMul(Half, l_horizontal))
    /\ RLe(Whole(0), pos[3]) /\ RLe(pos[3], l_vertical)

Contained(rows, l_horizontal, l_vertical) ==
    \A k \in 1..Len(rows) : InCuboid(rows[k], l_horizontal, l_vertical)

\* values rng.random can return: 0, values inside the interval, one near 1
UnitDraws == {Whole(0), Frac(1, 8), Half, Frac(7, 8)}

\* C15: every position the cuboid generator produces, with or without
\* collision avoidance, satisfies |x| <= l_horizontal / 2,
\* |y| <= l_horizontal / 2 and 0 <= z <= l_vertical: the rows written so
\* far, the rows of the returned leaf cloud, and the row computed from any
\* draw of [0, 1).
C15_CuboidContainment ==
    (gcall.shape = "cuboid" /\ gpc \in {"positions", "orientations", "returned"}) =>
        /\ Contained(positions, pargs.l_horizontal, pargs.l_vertical)
        /\ gpc = "returned" =>
              Contained(gresult.leaf_positions, params.l_horizontal, params.l_vertical)
        /\ \A r1 \in UnitDraws, r2 \in UnitDraws, r3 \in UnitDraws :
              InCuboid(position_row("cuboid", <<r1, r2, r3>>, pargs),
                       pargs.l_horizontal, pargs.l_vertical)

\* the cuboid generator with collision avoidance returned two leaves, one
\* of them at a negative x
C15_Witness ==
    /\ gpc = "returned" /\ gcall.shape = "cuboid" /\ gcall.avoid_overlap
    /\ Len(gresult.leaf_positions) = 2
    /\ \E k \in 1..2 : RLt(gresult.leaf_positions[k][1], Whole(0))

\* the cuboid generator without collision avoidance returned two leaves
CuboidReturnedWithoutAvoidance ==
    /\ gpc = "returned" /\ gcall.shape = "cuboid" /\ ~gcall.avoid_overlap
    /\ Len(gresult.leaf_positions) = 2

-----------------------------------------------------------------------------
(* Properties of callers of the generators (SpecGenCalls).                 *)

\* the arrays of a leaf cloud
Arrays(cloud) ==
    <<cloud.leaf_positions, cloud.leaf_orientations, cloud.leaf_radii>>

\* C11: two calls of the same generator with the same seed and the same
\* parameters return identical position, orientation and radius arrays,
\* whatever calls were made before or between them, with and without
\* collision avoidance.
C11_Deterministic ==
    /\ \A h1 \in history, h2 \in history :
         (h1.call = h2.call /\ h1.kwargs = h2.kwargs)
            => Arrays(h1.result) = Arrays(h2.result)
    /\ \A h \in history :
         (gpc = "returned" /\ h.call = gcall /\ h.kwargs = kwargs)
            => Arrays(h.result) = Arrays(gresult)

\* the third call, with collision avoidance, returned two leaves as an
\* earlier call of the same generator, seed and parameters did, and a call
\* with another seed returned in between or before
C11_Witness ==
    /\ ncalls = 3 /\ gpc = "returned"
    /\ gcall.avoid_overlap /\ Len(gresult.leaf_positions) = 2
    /\ \E h \in history : h.call = gcall /\ h.kwargs = kwargs
    /\ \E h \in history : h.call.seed # gcall.seed

-----------------------------------------------------------------------------
(* Properties of DiscreteCanopy.homogeneous (SpecHomogeneous).             *)

HomFinished == hpc \in {"returned", "raised"}

\* the canopy homogeneous returned and its first instanced canopy element
HomCanopy == canopies[hresult]
HomElement == elements[HomCanopy.instanced_canopy_elements[1]]

\* the canopy element of the returned canopy is the leaf cloud the caller
\* got from LeafCloud.cuboid
SameAsCuboid ==
    /\ hpc = "returned"
    /\ \A h \in history : HomElement.canopy_element = h.result

\* C12: homogeneous accepts every keyword argument LeafCloud.cuboid accepts
\* and forwards it unchanged: whenever LeafCloud.cuboid, called with the
\* same keyword arguments and the id "<id>_leaf_cloud", returned a leaf
\* cloud, homogeneous returns a canopy whose single canopy element equals
\* that leaf cloud.
C12_ForwardsKeywords ==
    (HomFinished /\ history # {}) => SameAsCuboid

\* the same, for the calls whose keyword arguments are all parameters of
\* the cuboid (no seed, avoid_overlap or n_attempts)
ParametersForwarded ==
    (HomFinished /\ history # {} /\ unexpected("cuboid", hcall.kwargs) = {})
        => SameAsCuboid

\* a canopy was returned for keyword arguments that are all parameters
ParametersForwardedReached ==
    /\ hpc = "returned" /\ history # {}
    /\ Len(HomElement.canopy_element.leaf_positions) = 2

\* the fields the keyword arguments supply
SuppliedBy(kw) ==
    LET o == attrs_init("cuboid", kw)
    IN  {f \in DOMAIN o \ {"cls", "id"} : o[f] # NoValue}

\* a sufficient set: every parameter is computable from the supplied ones
\* through the dependency relations
Sufficient(kw) ==
    {"n_leaves", "lai", "leaf_radius", "l_horizontal", "l_vertical"}
        \subseteq Closure(SuppliedBy(kw))

\* the canopy homogeneous returns, as documented
HomogeneousCanopy ==
    /\ hpc = "returned"
    /\ Len(HomCanopy.instanced_canopy_elements) = 1
    /\ HomElement.instance_positions = << <<0, 0, 0>> >>
    /\ HomElement.canopy_element.id = leaf_cloud_id(hcall.id)
    /\ HomCanopy.id = hcall.id
    /\ HomCanopy.size = <<params.l_horizontal, params.l_horizontal,
                          params.l_vertical>>

\* C13: for every sufficient cuboid parameter set, homogeneous returns a
\* canopy with exactly one instanced element, whose instance positions are
\* the single origin, whose canopy element is a leaf cloud with the id
\* "<id>_leaf_cloud", and whose size is (l_horizontal, l_horizontal,
\* l_vertical) with the resolved extents.
C13_HomogeneousCanopy ==
    (/\ HomFinished
     /\ unexpected("cuboid", hcall.kwargs) = {}
     /\ Sufficient(hcall.kwargs)) => HomogeneousCanopy

\* the same, for the sufficient sets that supply l_horizontal
CanopyWhenExtentSupplied ==
    (/\ HomFinished
     /\ unexpected("cuboid", hcall.kwargs) = {}
     /\ Sufficient(hcall.kwargs)
     /\ "l_horizontal" \in SuppliedBy(hcall.kwargs)) => HomogeneousCanopy

\* a canopy was returned for a set that derives l_vertical
CanopyWhenExtentSuppliedReached ==
    /\ hpc = "returned"
    /\ "l_vertical" \notin SuppliedBy(hcall.kwargs)
    /\ hcall.id = "c"

-----------------------------------------------------------------------------
(* Properties of DiscreteCanopy.leaf_cloud_from_files (SpecFromFiles).     *)

FromFinished == fpc \in {"returned", "raised"}

\* the records of the call, and the instanced canopy element of the
\* returned canopy at the place k
Dicts == fcall.leaf_cloud_dicts
FromElement(k) == elements[canopies[fresult].instanced_canopy_elements[k]]

\* both files of every record can be read
FilesReadable ==
    \A k \in 1..Len(Dicts) :
        /\ Dicts[k].leaf_cloud_filename \in {"leaves_a", "leaves_b"}
        /\ Dicts[k].instance_filename \in {"inst_p", "inst_q"}

\* C18: leaf_cloud_from_files returns a canopy with exactly one instanced
\* element per record, in record order, whose canopy element has the id
\* "<id>_<sub_id>_leaf_cloud" when the record has a sub_id and
\* "<id>_leaf_cloud" when the single record has none; when more than one
\* record is given and a record has no sub_id, the call raises an error and
\* returns no canopy.
C18_OneElementPerRecord ==
    /\ fpc = "returned" =>
          /\ Len(canopies[fresult].instanced_canopy_elements) = Len(Dicts)
          /\ \A k \in 1..Len(Dicts) :
                /\ FromElement(k).canopy_element.id =
                        (IF Dicts[k].sub_id = None THEN "c_leaf_cloud"
                         ELSE "c_" \o Dicts[k].sub_id \o "_leaf_cloud")
                /\ Len(FromElement(k).canopy_element.leaf_positions) =
                        Len(Files[Dicts[k].leaf_cloud_filename])
                /\ text(FromElement(k).instance_positions) =
                        Files[Dicts[k].instance_filename]
    /\ (/\ FromFinished /\ fcall.size # None /\ Dicts # None
        /\ Len(Dicts) > 1
        /\ \E k \in 1..Len(Dicts) : Dicts[k].sub_id = None)
            => (fpc = "raised" /\ fresult = 0 /\ canopies = <<>>)
    /\ (/\ FromFinished /\ fcall.size # None /\ Dicts # None
        /\ FilesReadable
        /\ Len(Dicts) > 1 => \A k \in 1..Len(Dicts) : Dicts[k].sub_id # None)
            => fpc = "returned"

\* a canopy of two records was returned, the second record first in the
\* alphabet, with different files
C18_Witness ==
    /\ fpc = "returned" /\ Len(Dicts) = 2
    /\ Dicts[1].sub_id = "y" /\ Dicts[2].sub_id = "x"
    /\ Dicts[1].leaf_cloud_filename = "leaves_b"
    /\ Dicts[2].leaf_cloud_filename = "leaves_a"
    /\ FromElement(1).canopy_element.id = "c_y_leaf_cloud"
    /\ FromElement(2).canopy_element.id = "c_x_leaf_cloud"

\* a canopy of a single record without sub_id was returned
SingleRecordReturned ==
    /\ fpc = "returned" /\ Len(Dicts) = 1 /\ Dicts[1].sub_id = None
    /\ FromElement(1).canopy_element.id = "c_leaf_cloud"

\* two records, the second without sub_id and all files readable: raised
SubIdMissingRaised ==
    /\ fpc = "raised" /\ ferr = "ValueError" /\ fcall.size # None /\ Dicts # None
    /\ Len(Dicts) = 2 /\ FilesReadable
    /\ Dicts[1].sub_id = "x" /\ Dicts[2].sub_id = None

-----------------------------------------------------------------------------
(* Properties of the kernel dictionaries (SpecKernel).                     *)

\* the decimal numerals of the indices of the model
Numeral == <<"0", "1", "2", "3", "4">>

\* the instanced canopy element of the model, the id of its canopy element
\* and the number of its instance positions
TheElement == elements[1]
ElementId == TheElement.canopy_element.id
InstanceCount == Len(TheElement.instance_positions)
InstanceKey(i) == ElementId \o "_instance_" \o Numeral[i + 1]

\* C19: for an instanced canopy element with canopy element id E and P
\* instance positions, instances() returns exactly P records keyed
\* E_instance_0 .. E_instance_(P-1), record i referencing the group E by
\* identifier and carrying the translation by the instance position i;
\* shapes() returns exactly one shape group keyed E that contains the
\* shapes of the canopy element once, whatever P is.
C19_InstancesAndGroup ==
    /\ (kcall.op = "instances") =>
          /\ DOMAIN kresult = {InstanceKey(i) : i \in 0..(InstanceCount - 1)}
          /\ Cardinality(DOMAIN kresult) = InstanceCount
          /\ \A i \in 0..(InstanceCount - 1) :
                /\ kresult[InstanceKey(i)].type = "instance"
                /\ kresult[InstanceKey(i)].group = [type |-> "ref", id |-> ElementId]
                /\ kresult[InstanceKey(i)].to_world =
                      [translate |->
                         [k \in 1..3 |-> TheElement.instance_positions[i + 1][k]
                                            * kcall.ctx.kernel_length]]
    /\ (kcall.op = "shapes") =>
          /\ DOMAIN kresult = {ElementId}
          /\ kresult[ElementId].type = "shapegroup"
          /\ DOMAIN kresult[ElementId] \ {"type"} =
                DOMAIN LeafCloud_shapes(TheElement.canopy_element, kcall.ctx)
          /\ Cardinality(DOMAIN kresult[ElementId] \ {"type"}) =
                Len(TheElement.canopy_element.leaf_positions)
          /\ \A key \in DOMAIN kresult[ElementId] \ {"type"} :
                kresult[ElementId][key] =
                    LeafCloud_shapes(TheElement.canopy_element, kcall.ctx)[key]

\* instances() returned two records for an element of two positions in a
\* kernel unit that is not the metre
C19_Witness ==
    /\ kcall.op = "instances"
    /\ kcall.ctx.kernel_length = 1000
    /\ InstanceCount = 2
    /\ TheElement.instance_positions[2] = <<4, 0, 0>>
    /\ Cardinality(DOMAIN kresult) = 2

\* shapes() returned the group of two leaves of an element of two positions
GroupOfTwoLeaves ==
    /\ kcall.op = "shapes"
    /\ InstanceCount = 2
    /\ Cardinality(DOMAIN kresult[ElementId]) = 3

\* the abstract tree of the model, the material entry of its leaf cloud and
\* the material entry of its trunk
TheTree == trees[1]
LeafEntry ==
    [type |-> "bilambertian",
     reflectance |-> TheTree.leaf_cloud.leaf_reflectance,
     transmittance |-> TheTree.leaf_cloud.leaf_transmittance]
TrunkEntry == [type |-> "diffuse", reflectance |-> TheTree.trunk_reflectance]

\* the dictionary holds the entry of the leaf cloud and the entry of the trunk
BothEntries ==
    /\ \E key \in DOMAIN kresult : kresult[key] = LeafEntry
    /\ \E key \in DOMAIN kresult : kresult[key] = TrunkEntry

\* C20: AbstractTree.bsdfs returns the union of the material map of the
\* leaf cloud and the material map of the trunk: for every choice of the
\* tree id and the leaf cloud id, the result contains the material entry of
\* the leaf cloud and the material entry of the trunk.
C20_BsdfsUnion ==
    (kcall.op = "bsdfs" /\ kerr = None) => BothEntries

\* the same, for a tree whose id is not the id of its leaf cloud
UnionWhenIdsDiffer ==
    (/\ kcall.op = "bsdfs" /\ kerr = None
     /\ TheTree.id # TheTree.leaf_cloud.id)
        => /\ BothEntries
           /\ DOMAIN kresult = {"bsdf_" \o TheTree.id,
                                "bsdf_" \o TheTree.leaf_cloud.id}
           /\ kresult["bsdf_" \o TheTree.leaf_cloud.id] = LeafEntry
           /\ kresult["bsdf_" \o TheTree.id] = TrunkEntry

\* bsdfs() returned two entries
UnionWhenIdsDifferReached ==
    /\ kcall.op = "bsdfs" /\ kerr = None
    /\ Cardinality(DOMAIN kresult) = 2

-----------------------------------------------------------------------------
(* Properties of the translation specification.                            *)

\* the call of translated that has just ended: receiver, argument, result
TranslatedCall == last.op = "translated"
Receiver == clouds[last.recv]
Result == clouds[last.ret]

\* the result is the receiver with the positions moved as the claim says
MovedBy(xyz) ==
    /\ Len(Result.leaf_positions) = Len(Receiver.leaf_positions)
    /\ \A i \in 1..Len(Receiver.leaf_positions) :
         Result.leaf_positions[i]
           = Add3(Receiver.leaf_positions[i],
                  IF xyz.ndim = 1 THEN xyz.data ELSE xyz.data[i])
    /\ Result.leaf_orientations = Receiver.leaf_orientations
    /\ Result.leaf_radii = Receiver.leaf_radii
    /\ Result.id = Receiver.id

\* C21: translated(v) returns a leaf cloud whose positions are the
\* receiver's plus v for a 3-vector v, and the element-wise sum for an
\* (N, 3) array of the shape of the positions, the other fields being those
\* of the receiver; for a 2-D v of another shape it raises the shape error
\* and returns nothing.
C21_Translated ==
    TranslatedCall =>
        /\ (last.arg.ndim = 1 /\ Len(last.arg.data) = 3)
              => (last.raised = None /\ MovedBy(last.arg))
        /\ (last.arg.ndim = 2 /\ shape(last.arg.data) = positions_shape(Receiver))
              => (last.raised = None /\ MovedBy(last.arg))
        /\ (last.arg.ndim = 2 /\ shape(last.arg.data) # positions_shape(Receiver))
              => (last.raised = "ValueError" /\ last.ret = 0)

\* the same, for a receiver whose positions are an array of rows
TranslatedOnRows ==
    Receiver.positions_ndim = 2 => C21_Translated

\* a cloud of two leaves was translated by a 3-vector
TranslatedOnRowsReached ==
    /\ TranslatedCall /\ last.raised = None
    /\ last.arg.ndim = 1 /\ Len(Receiver.leaf_positions) = 2
    /\ Result.leaf_positions # Receiver.leaf_positions

-----------------------------------------------------------------------------
(* Properties of the file reading specification (SpecRead).                *)

\* the file the last call names exists
ReadsFile == rcall.filename \in DOMAIN disk

\* the line has a token that is no number
NonNumeric(line) == \E j \in 1..Len(line) : Len(line[j]) # 1

\* the call raised and returned no object
RaisedNothing == rresult.exc # None /\ "val" \notin DOMAIN rresult

\* C22: LeafCloud.from_file returns no leaf cloud and raises an error for a
\* missing path (the not-found error) and for every file that contains a
\* malformed line: a line whose number of tokens is not exactly 7, or that
\* contains a non-numeric token.
C22_MalformedRaises ==
    rcall.op = "LeafCloud.from_file" =>
        /\ rcall.filename = "missing"
              => (rresult.exc = "FileNotFoundError" /\ RaisedNothing)
        /\ (/\ ReadsFile
            /\ \E k \in 1..Len(disk[rcall.filename]) :
                  \/ Len(disk[rcall.filename][k]) # 7
                  \/ NonNumeric(disk[rcall.filename][k]))
              => RaisedNothing

\* the same, with "less than 7" for "not exactly 7"
ShortLineRaises ==
    rcall.op = "LeafCloud.from_file" =>
        /\ rcall.filename = "missing"
              => (rresult.exc = "FileNotFoundError" /\ RaisedNothing)
        /\ (/\ ReadsFile
            /\ \E k \in 1..Len(disk[rcall.filename]) :
                  \/ Len(disk[rcall.filename][k]) < 7
                  \/ NonNumeric(disk[rcall.filename][k]))
              => RaisedNothing

\* a file of a line of seven numbers and a line of six numbers was rejected
ShortLineRaisesReached ==
    /\ rcall.op = "LeafCloud.from_file" /\ ReadsFile
    /\ Len(disk.f) = 2 /\ Len(disk.f[1]) = 7 /\ ~NonNumeric(disk.f[1])
    /\ Len(disk.f[2]) = 6
    /\ rresult.exc = "ValueError"

\* the number (from 1) of the first line of the file that has a non-numeric
\* token or a token count other than 3, or 0
FirstBad3 ==
    LET lines == disk[rcall.filename]
        Bad(k) == NonNumeric(lines[k]) \/ Len(lines[k]) # 3
    IN  IF \E k \in 1..Len(lines) : Bad(k)
        THEN CHOOSE k \in 1..Len(lines) : Bad(k) /\ \A j \in 1..(k - 1) : ~Bad(j)
        ELSE 0

\* C23: InstancedCanopyElement.from_file raises the not-found error for a
\* missing path, and for the first line in file order (blank lines
\* included) that has a non-numeric token or a token count other than 3 it
\* raises the parse error that names the 1-based number of that line; in
\* both cases nothing is returned; otherwise it returns one instance
\* position per line, in file order.
C23_InstanceFile ==
    rcall.op = "InstancedCanopyElement.from_file" =>
        /\ rcall.filename = "missing"
              => (rresult.exc = "FileNotFoundError" /\ RaisedNothing)
        /\ (ReadsFile /\ FirstBad3 # 0)
              => (/\ rresult.exc = "ValueError" /\ RaisedNothing
                  /\ rresult.line = FirstBad3)
        /\ (ReadsFile /\ FirstBad3 = 0)
              => (/\ rresult.exc = None
                  /\ Len(rresult.val.instance_positions) = Len(disk[rcall.filename])
                  /\ \A k \in 1..Len(disk[rcall.filename]) :
                        \A j \in 1..3 :
                            rresult.val.instance_positions[k][j]
                                = disk[rcall.filename][k][j][1])

\* the second line of a file, a blank one, was named by the parse error
C23_Witness ==
    /\ rcall.op = "InstancedCanopyElement.from_file" /\ ReadsFile
    /\ Len(disk.f) = 2 /\ disk.f[2] = <<>>
    /\ rresult.exc = "ValueError" /\ rresult.line = 2

\* two positions were read, in the order of the lines
TwoPositionsRead ==
    /\ rcall.op = "InstancedCanopyElement.from_file" /\ rresult.exc = None
    /\ Len(rresult.val.instance_positions) = 2
    /\ rresult.val.instance_positions[1] # rresult.val.instance_positions[2]

-----------------------------------------------------------------------------
(* Properties of from_dict (SpecFromDict).                                 *)

\* the constructors the class of the last call dispatches to
Recognized ==
    IF rcall.op = "LeafCloud.from_dict"
    THEN {"cuboid", "sphere", "cylinder", "cone", "from_file"}
    ELSE IF rcall.op = "InstancedCanopyElement.from_dict" THEN {"from_file"}
    ELSE {"homogeneous", "leaf_cloud_from_files"}

\* from_dict was called
FromDictCalled == rcall.op # "none"

\* the keys of the dictionary, the "construct" key left out
RemainingKeys == [k \in DOMAIN rcall.d \ {"construct"} |-> rcall.d[k]]

\* what the call returns is what this constructor returns for the
\* remaining keys
Calls(constructor) ==
    /\ rresult.exc = None
    /\ rresult.calls = constructor
    /\ rresult.kwargs = RemainingKeys
    /\ ("padded" \in DOMAIN rresult => rresult.padded = 0)

\* C24: from_dict dispatches on the "construct" key: a recognized value
\* calls the named alternate constructor with the remaining keys, an absent
\* key forwards the remaining keys to the default constructor, and any
\* other value raises a construction error without building any object.
C24_Dispatch ==
    FromDictCalled =>
        IF "construct" \notin DOMAIN rcall.d THEN Calls("__init__")
        ELSE IF rcall.d.construct \in Recognized THEN Calls(rcall.d.construct)
        ELSE rresult.exc = "ValueError" /\ "calls" \notin DOMAIN rresult

\* the same, for the dictionaries without a "padding" key whose "construct"
\* key, when present, does not hold None
DispatchWithoutPadding ==
    (/\ FromDictCalled
     /\ "padding" \notin DOMAIN rcall.d
     /\ "construct" \in DOMAIN rcall.d => rcall.d.construct # None)
        => C24_Dispatch

\* the three outcomes were seen on dictionaries without a "padding" key
DispatchWithoutPaddingReached ==
    /\ rcall.op = "DiscreteCanopy.from_dict"
    /\ rcall.d = [construct |-> "homogeneous", id |-> "a"]
    /\ rresult.calls = "homogeneous" /\ rresult.kwargs = [id |-> "a"]

-----------------------------------------------------------------------------
(* Properties of the placer on a stream of draws (SpecPlaceDraws).         *)

\* the candidate the next attempt examines
NextCandidate ==
    pos_candidate(pargs.rng[((rng \div 3) % Len(pargs.rng)) + 1],
                  pargs.l_horizontal, pargs.l_vertical)

\* the box of a position, inflated by leaf_radius on the three axes
InflatedBox(p) ==
    [k \in 1..3 |-> <<RSub(p[k], pargs.leaf_radius), RAdd(p[k], pargs.leaf_radius)>>]

\* the box of the candidate overlaps no box of a placed leaf
CandidateFree ==
    \A k \in 1..Len(positions) :
        ~overlaps(InflatedBox(positions[k]), InflatedBox(NextCandidate), pargs.closed)

\* what holds in every state of a call
PlacerState ==
    /\ Len(positions) = i_leaf
    /\ tree = {InflatedBox(positions[k]) : k \in 1..Len(positions)}
    /\ j_attempt <= pargs.n_attempts
    /\ rng <= 3 * pargs.n_leaves * pargs.n_attempts
    /\ pc = "returned" => (presult = positions /\ Len(presult) = pargs.n_leaves)
    /\ pc = "raised" => presult = NoValue

\* what holds of every step that examines a candidate
PlacerStep ==
    rng' # rng =>
        /\ rng' = rng + 3
        /\ j_attempt < pargs.n_attempts
        /\ IF i_leaf = 0 \/ CandidateFree
           THEN positions' = Append(positions, NextCandidate) /\ i_leaf' = i_leaf + 1
           ELSE /\ positions' = positions /\ i_leaf' = i_leaf
                /\ j_attempt' = j_attempt + 1

\* C25: for each leaf the placer tries candidates one at a time in draw
\* order, at most n_attempts of them, and places the leaf at the first
\* candidate whose inflated box overlaps no placed box (the first leaf at its
\* first candidate, the indexed boxes being exactly the boxes of the leaves
\* placed so far); a call examines at most n_leaves * n_attempts candidates
\* and always terminates, returning n_leaves positions or raising.
C25_BoundedPlacement ==
    /\ []PlacerState
    /\ [][PlacerStep]_vars
    /\ <>(pc \in {"returned", "raised"})

\* two leaves were placed, the second one at its second candidate
C25_Witness ==
    /\ pc = "returned" /\ Len(presult) = 2
    /\ rng = 9

\* the call raised on its second leaf, after n_attempts = 2 candidates for it
RaisedWithinBudget ==
    /\ pc = "raised" /\ i_leaf = 1 /\ pargs.n_attempts = 2
    /\ rng = 9

-----------------------------------------------------------------------------
(* The order of the draws of a generator call (SpecGen).                   *)

\* a step that draws the three values of a candidate position: no
\* orientation draw was made before it, and the candidate is for the leaf
\* that follows the placed ones
PositionDraw ==
    /\ gpc = "positions" /\ gpc' = "positions"
    /\ rng' = rng + 3
    /\ gen_orientations = <<>> /\ theta = NoValue
    /\ i_leaf < pargs.n_leaves /\ Len(positions) = i_leaf
    /\ \/ positions' = positions /\ i_leaf' = i_leaf
       \/ /\ Len(positions') = i_leaf + 1 /\ i_leaf' = i_leaf + 1
          /\ SubSeq(positions', 1, i_leaf) = positions

\* a step that draws for an orientation: every position is fixed, and the
\* step is a rejection trial of two draws, or the azimuth draw that follows
\* the accepted trial and completes the orientation of the next leaf
OrientationDraw ==
    /\ gpc = "orientations" /\ gpc' = "orientations"
    /\ Len(positions) = pargs.n_leaves /\ positions' = positions
    /\ Len(gen_orientations) < pargs.n_leaves
    /\ IF theta = NoValue
       THEN rng' = rng + 2 /\ gen_orientations' = gen_orientations
       ELSE /\ rng' = rng + 1 /\ theta' = NoValue
            /\ Len(gen_orientations') = Len(gen_orientations) + 1
            /\ SubSeq(gen_orientations', 1, Len(gen_orientations)) = gen_orientations
            /\ gen_orientations'[Len(gen_orientations')][1] = theta

\* C26: in every generator call the draws are consumed in a fixed order:
\* first the position draws, three per candidate position, in leaf index
\* order, and only after the last position is fixed the orientation draws,
\* per leaf in index order the pairs of the rejection trials and then one
\* azimuth draw; no orientation draw precedes a position draw.
C26_DrawOrder ==
    [][/\ rng' # rng => (PositionDraw \/ OrientationDraw)
       /\ gpc = "orientations" => gpc' # "positions"]_vars

\* two orientations are complete, after a rejected trial: more than three
\* draws per orientation were made after the six draws of the two positions
C26_Witness ==
    /\ gpc = "orientations"
    /\ Len(positions) = 2 /\ Len(gen_orientations) = 2
    /\ rng > 12

-----------------------------------------------------------------------------
(* Properties of _inversebeta (SpecInverseBeta).                           *)

\* s1 and s1 + s2 of a pair of draws
TrialS1(rands) == RPow(rands[1], pargs.mu[2] \div pargs.mu[1])
TrialS(rands) ==
    RAdd(TrialS1(rands), RPow(rands[2], pargs.nu[2] \div pargs.nu[1]))

\* the trial on the pair is an accepting one: s1 + s2 <= 1
Accepting(rands) == TrialS(rands)[1] <= TrialS(rands)[2]

\* the stream holds an accepting trial
StreamAccepts == \E k \in 1..Len(pargs.rng) : Accepting(pargs.rng[k])

\* a trial returns s1 / (s1 + s2) when it is an accepting one, and does not
\* return when it is not
TrialStep ==
    LET rands == pargs.rng[rng + 1]
    IN  IF Accepting(rands)
        THEN /\ pc' = "returned"
             /\ theta' = RDiv(TrialS1(rands), TrialS(rands))
        ELSE pc' = "trials" /\ theta' = NoValue

\* C27: the rejection loop repeats trials of two uniform draws, with no cap
\* on their number, and returns s1 / (s1 + s2) at the first trial with
\* s1 + s2 <= 1; it never returns on a trial with s1 + s2 > 1, and it
\* terminates if and only if an accepting trial occurs.
C27_RejectionLoop ==
    /\ [][TrialStep]_vars
    /\ StreamAccepts => <>(pc = "returned")
    /\ ~StreamAccepts => [](pc = "trials")

\* the call returned 3/4 at its third trial, on which s1 + s2 = 1
C27_Witness ==
    /\ pc = "returned" /\ rng = 0
    /\ theta = Frac(3, 4)
    /\ ~Accepting(pargs.rng[1]) /\ ~Accepting(pargs.rng[2])
    /\ TrialS(pargs.rng[3]) = Whole(1)

\* the loop of a call whose stream holds no accepting trial goes on after
\* more trials than the stream is long
LoopGoesOn ==
    /\ pc = "trials" /\ ~StreamAccepts /\ rng = 1 /\ theta = NoValue

-----------------------------------------------------------------------------
(* Properties of AbstractTree.shapes (SpecTree).                           *)

\* the material binding a shape of the object with this id has to hold
Binding(id, entry) ==
    IF kcall.ctx.ref THEN [type |-> "ref", id |-> "bsdf_" \o id] ELSE entry

LeafKey(i) == TheTree.leaf_cloud.id \o "_leaf_" \o ToString(i)
TrunkKeys == {"trunk_cyl_" \o TheTree.id, "trunk_cap_" \o TheTree.id}

\* the positions the leaf cloud of the tree was built with
Untranslated ==
    TheTree.leaf_cloud.leaf_positions
        = [k \in 1..Len(TheTree.leaf_cloud.leaf_positions) |-> <<k, 0, 1>>]

\* C28: AbstractTree.shapes emits one disk per leaf of the leaf cloud of the
\* tree, placed at the position of the leaf displaced by exactly
\* (0, 0, trunk_height), plus exactly two trunk primitives, one cylinder and
\* one cap disk; the two trunk primitives reference the material binding of
\* the tree, every leaf the one of the leaf cloud, and the leaf cloud stored
\* in the tree keeps its untranslated positions.
C28_TreeShapes ==
    kcall.op = "tree_shapes" =>
        LET n == Len(TheTree.leaf_cloud.leaf_positions)
        IN  /\ kerr = None
            /\ DOMAIN kresult = {LeafKey(i) : i \in 0..(n - 1)} \cup TrunkKeys
            /\ Cardinality(DOMAIN kresult) = n + 2
            /\ \A i \in 0..(n - 1) :
                  /\ kresult[LeafKey(i)].type = "disk"
                  /\ kresult[LeafKey(i)].to_world.origin
                        = [k \in 1..3 |->
                             (TheTree.leaf_cloud.leaf_positions[i + 1][k]
                                + (IF k = 3 THEN TheTree.trunk_height ELSE 0))
                             * kcall.ctx.kernel_length]
                  /\ kresult[LeafKey(i)].bsdf
                        = Binding(TheTree.leaf_cloud.id, LeafEntry)
            /\ kresult["trunk_cyl_" \o TheTree.id].type = "cylinder"
            /\ kresult["trunk_cap_" \o TheTree.id].type = "disk"
            /\ \A key \in TrunkKeys :
                  kresult[key].bsdf = Binding(TheTree.id, TrunkEntry)
            /\ Untranslated

\* the same, for a tree whose leaf cloud holds its positions as an array of
\* rows
ShapesOfRows ==
    TheTree.leaf_cloud.positions_ndim = 2 => C28_TreeShapes

\* the shapes of a tree of two leaves and a trunk of height 2 were returned,
\* in the kernel unit of which 1000 make a metre
ShapesOfRowsReached ==
    /\ kcall.op = "tree_shapes" /\ kerr = None
    /\ kcall.ctx.kernel_length = 1000 /\ TheTree.trunk_height = 2
    /\ Cardinality(DOMAIN kresult) = 4
    /\ kresult[LeafKey(1)].to_world.origin = <<2000, 0, 3000>>

-----------------------------------------------------------------------------
(* Composition of padded (SpecComposed).                                   *)

\* the multiset of the entries lo .. hi of a sequence
RECURSIVE BagOfRange(_, _, _)
BagOfRange(s, lo, hi) ==
    IF lo > hi THEN EmptyBag
    ELSE IF lo = hi THEN SetToBag({s[lo]})
    ELSE LET mid == (lo + hi) \div 2
         IN  BagOfRange(s, lo, mid) (+) BagOfRange(s, mid + 1, hi)

BagOfSeq(s) == BagOfRange(s, 1, Len(s))

\* the instance positions of element j of canopy c
PositionsOf(c, j) ==
    elements[canopies[c].instanced_canopy_elements[j]].instance_positions

\* the paddings of the two calls in a row
FirstPadding == CHOOSE p \in 1..MaxComposed : <<1, p, 2>> \in returned
SecondPadding == CHOOSE q \in 1..MaxComposed : <<2, q, 3>> \in returned

\* C29: padding composes: for all p, q >= 1, padded(p).padded(q) has the
\* same size and, for each instanced element, the same multiset of instance
\* positions as padded(2pq + p + q), and the instance positions of the
\* original appear unchanged among the padded ones.
C29_PaddingComposes ==
    /\ \A c \in 2..Len(canopies) :
          \A j \in 1..Len(canopies[1].instanced_canopy_elements) :
              BagOfSeq(PositionsOf(1, j)) \sqsubseteq BagOfSeq(PositionsOf(c, j))
    /\ Len(canopies) = 4 =>
          /\ last.arg = 2 * FirstPadding * SecondPadding + FirstPadding + SecondPadding
          /\ canopies[3].size = canopies[4].size
          /\ Len(canopies[3].instanced_canopy_elements)
                = Len(canopies[4].instanced_canopy_elements)
          /\ \A j \in 1..Len(canopies[3].instanced_canopy_elements) :
                BagOfSeq(PositionsOf(3, j)) = BagOfSeq(PositionsOf(4, j))

\* padded(1).padded(2) and padded(7) of a canopy whose element holds the
\* same point twice were compared: 225 copies of the two positions, in
\* different orders
C29_Witness ==
    /\ Len(canopies) = 4
    /\ FirstPadding = 1 /\ SecondPadding = 2
    /\ PositionsOf(1, 1) = << <<1, 1, 0>>, <<1, 1, 0>> >>
    /\ Len(PositionsOf(3, 1)) = 450
    /\ PositionsOf(3, 1) # PositionsOf(4, 1)

-----------------------------------------------------------------------------
(* The ids of the elements of leaf_cloud_from_files (SpecCanopyKernel).    *)

\* the number of instance positions of the elements 1 .. n of the result
RECURSIVE PositionsCount(_)
PositionsCount(n) ==
    IF n = 0 THEN 0
    ELSE PositionsCount(n - 1) + Len(FromElement(n).instance_positions)

Records == Len(fcall.leaf_cloud_dicts)

\* the merged mappings hold an entry per record and per instance position
OneEntryEach ==
    /\ \A j, k \in 1..Records :
          j # k => FromElement(j).canopy_element.id # FromElement(k).canopy_element.id
    /\ kcall.op = "canopy_shapes" =>
          /\ Cardinality(DOMAIN kresult) = Records
          /\ \A k \in 1..Records :
                kresult[FromElement(k).canopy_element.id]
                    = InstancedCanopyElement_shapes(FromElement(k), kcall.ctx)
                            [FromElement(k).canopy_element.id]
    /\ kcall.op = "canopy_instances" =>
          Cardinality(DOMAIN kresult) = PositionsCount(Records)

\* C30: for every record list leaf_cloud_from_files accepts, the ids of the
\* canopy elements of the result are pairwise distinct, and the merged
\* shapes and instances of the canopy hold one shape group per record and
\* one instance entry per instance position of every record.
C30_DistinctIds ==
    fpc = "returned" => OneEntryEach

\* the same, for the record lists whose sub_ids are pairwise distinct
DistinctSubIds ==
    \A j, k \in 1..Records :
        j # k => fcall.leaf_cloud_dicts[j].sub_id # fcall.leaf_cloud_dicts[k].sub_id

EntriesOfDistinctSubIds ==
    (fpc = "returned" /\ DistinctSubIds) => OneEntryEach

\* the instances of a canopy of two records of distinct sub_ids, of one and
\* of two instance positions, were merged
EntriesOfDistinctSubIdsReached ==
    /\ fpc = "returned" /\ Records = 2 /\ DistinctSubIds
    /\ kcall.op = "canopy_instances"
    /\ Cardinality(DOMAIN kresult) = 3

====
